---- MODULE Spec2Model ----
(***************************************************************************)
(* A model of the tool-call streaming core of browser-ai:                  *)
(*   - ToolCallFenceDetector (streaming/tool-call-detector)                *)
(*   - extractArgumentsDelta / extractArgumentsContent                     *)
(*   - parseJsonFunctionCalls                                              *)
(*   - the fence processing loop of doStream (core and transformers-js)    *)
(*                                                                         *)
(* Text is a TLA+ string; indexes are 0-based as in the source.  A TLA+    *)
(* string literal cannot hold the backquote character, so the model        *)
(* writes "^" for it: "^^^tool_call" is the markdown fence marker.  No     *)
(* input of the model uses "^" in any other role.                          *)
(***************************************************************************)
EXTENDS Integers, Sequences, FiniteSets, TLC

(* ------------------------------------------------------------------ *)
(* String primitives (the String.prototype methods the source uses)   *)
(* ------------------------------------------------------------------ *)

Min(S) == CHOOSE m \in S : \A n \in S : m <= n
Max(S) == CHOOSE m \in S : \A n \in S : m >= n
MinOf(a, b) == IF a <= b THEN a ELSE b
MaxOf(a, b) == IF a >= b THEN a ELSE b

\* the least element of a set of indexes, -1 for the empty set
FirstOr(S) == IF S = {} THEN -1 ELSE Min(S)

\* s.slice(a, b) for 0 <= a
Slice(s, a, b) ==
  IF a >= b \/ a >= Len(s) THEN ""
  ELSE IF b >= Len(s) THEN SubSeq(s, a + 1, Len(s))
  ELSE SubSeq(s, a + 1, b)

\* s.slice(a) for 0 <= a
SliceFrom(s, a) == IF a >= Len(s) THEN "" ELSE SubSeq(s, a + 1, Len(s))

\* s.slice(-n) for n > 0
SliceLast(s, n) == IF n >= Len(s) THEN s ELSE SubSeq(s, Len(s) - n + 1, Len(s))

\* s[i]
CharAt(s, i) == IF i < 0 \/ i >= Len(s) THEN "" ELSE SubSeq(s, i + 1, i + 1)

\* s.startsWith(p, i)
StartsWithAt(s, p, i) ==
  i + Len(p) <= Len(s) /\ (Len(p) = 0 \/ SubSeq(s, i + 1, i + Len(p)) = p)

\* s.startsWith(p)
StartsWith(s, p) == Len(p) <= Len(s) /\ (Len(p) = 0 \/ SubSeq(s, 1, Len(p)) = p)

\* s.endsWith(p)
EndsWith(s, p) ==
  Len(p) <= Len(s) /\ (Len(p) = 0 \/ SubSeq(s, Len(s) - Len(p) + 1, Len(s)) = p)

\* s.indexOf(p, from): -1 when p does not occur at or after from
IndexOfFrom(s, p, from) ==
  FirstOr({i \in from..(Len(s) - Len(p)) : StartsWithAt(s, p, i)})

\* s.indexOf(p)
IndexOf(s, p) == FirstOr({i \in 0..(Len(s) - Len(p)) : StartsWithAt(s, p, i)})

\* the character classes \w and \s of the regular expressions
WordChars ==
  {"a","b","c","d","e","f","g","h","i","j","k","l","m","n","o","p","q","r",
   "s","t","u","v","w","x","y","z","A","B","C","D","E","F","G","H","I","J",
   "K","L","M","N","O","P","Q","R","S","T","U","V","W","X","Y","Z","0","1",
   "2","3","4","5","6","7","8","9","_"}
SpaceChars == {" ", "\n", "\t", "\r"}

\* the end (exclusive) of the longest run of characters of class cls from i
RECURSIVE RunEnd(_, _, _)
RunEnd(s, i, cls) ==
  IF i < Len(s) /\ SubSeq(s, i + 1, i + 1) \in cls THEN RunEnd(s, i + 1, cls)
  ELSE i

(* ------------------------------------------------------------------ *)
(* ToolCallFenceDetector                                               *)
(* ------------------------------------------------------------------ *)

\* currentFencePattern = null
NoPattern ==
  [start |-> "", end |-> "", reconstructStart |-> "", isRegex |-> FALSE,
   isNull |-> TRUE]

FP(st, en, rs) ==
  [start |-> st, end |-> en, reconstructStart |-> rs, isRegex |-> FALSE,
   isNull |-> FALSE]

DEFAULT_FENCE_PATTERNS ==
  << FP("^^^tool_call", "^^^", "^^^tool_call\n"),
     FP("^^^tool-call", "^^^", "^^^tool-call\n") >>

EXTENDED_FENCE_PATTERNS ==
  << FP("^^^tool_call", "^^^", "^^^tool_call\n"),
     FP("^^^tool-call", "^^^", "^^^tool-call\n"),
     FP("<tool_call>", "</tool_call>", "<tool_call>") >>

\* whether /\[(\w+)\(/ matches at i, the run of \w after the bracket ending at e
PythonStartAt(text, i, e) ==
  SubSeq(text, i + 1, i + 1) = "[" /\ e > i + 1 /\ CharAt(text, e) = "("

\* the match of /\[(\w+)\(/ at i, -1 for none
PythonMatch(text, i) ==
  IF i = -1 THEN [index |-> -1, match |-> ""]
  ELSE [index |-> i, match |-> Slice(text, i, RunEnd(text, i + 1, WordChars) + 1)]

\* pythonStyleRegex.exec(text) from lastIndex 0
pythonStyleRegex(text) ==
  PythonMatch(text,
    FirstOr({i \in 0..(Len(text) - 3) :
               PythonStartAt(text, i, RunEnd(text, i + 1, WordChars))}))

NoStart == [index |-> -1, prefix |-> "", pattern |-> NoPattern]

\* one iteration of the loop over this.fencePatterns: pattern p found at idx
betterLiteral(best, p, idx) ==
  IF idx # -1 /\ (best.index = -1 \/ idx < best.index)
  THEN [index |-> idx, prefix |-> p.start, pattern |-> p]
  ELSE best

\* the loop over this.fencePatterns of findFenceStart, from pattern k on
RECURSIVE findLiteralStart(_, _, _, _)
findLiteralStart(text, patterns, k, best) ==
  IF k > Len(patterns) THEN best
  ELSE findLiteralStart(text, patterns, k + 1,
         betterLiteral(best, patterns[k], IndexOf(text, patterns[k].start)))

\* the enablePythonStyle part of findFenceStart
betterPython(lit, py) ==
  IF py.index # -1 /\ (lit.index = -1 \/ py.index < lit.index)
  THEN [index |-> py.index, prefix |-> py.match,
        pattern |-> [start |-> py.match, end |-> ")]",
                     reconstructStart |-> py.match, isRegex |-> TRUE,
                     isNull |-> FALSE]]
  ELSE lit

\* findFenceStart that tries the bracket call expression whatever
\* enablePythonStyle is
findFenceStart_always(text, patterns, python) ==
  betterPython(findLiteralStart(text, patterns, 1, NoStart),
               pythonStyleRegex(text))

findFenceStart(text, patterns, python) ==
  IF python
  THEN betterPython(findLiteralStart(text, patterns, 1, NoStart),
                    pythonStyleRegex(text))
  ELSE findLiteralStart(text, patterns, 1, NoStart)

\* the inner loop of computeOverlapLength for one prefix: the first size,
\* from maxLength down, at which the tail of text starts the prefix
RECURSIVE overlapWith(_, _, _)
overlapWith(text, prefix, size) ==
  IF size <= 0 THEN 0
  ELSE IF StartsWith(prefix, SliceLast(text, size)) THEN size
  ELSE overlapWith(text, prefix, size - 1)

\* maxLength without the - 1: the whole prefix counts as an overlap
maxLength_whole(text, prefix) == MinOf(Len(text), Len(prefix))

\* Math.min(text.length, prefix.length - 1)
maxLength(text, prefix) == MinOf(Len(text), Len(prefix) - 1)

\* computeOverlapLength that stops after the first prefix
computeOverlapLength_first(text, prefixes) ==
  IF prefixes = << >> THEN 0
  ELSE overlapWith(text, Head(prefixes), maxLength(text, Head(prefixes)))

RECURSIVE computeOverlapLength(_, _)
computeOverlapLength(text, prefixes) ==
  IF prefixes = << >> THEN 0
  ELSE MaxOf(overlapWith(text, Head(prefixes), maxLength(text, Head(prefixes))),
             computeOverlapLength(text, Tail(prefixes)))

fenceStarts(patterns) == [k \in 1..Len(patterns) |-> patterns[k].start]

Result(inF, safe, fence, after) ==
  [inFence |-> inF, safeContent |-> safe, hasFence |-> fence # "",
   completeFence |-> fence, textAfterFence |-> after]

\* A detector is the record of the fields of one ToolCallFenceDetector.
NewDetector(patterns, python) ==
  [fencePatterns |-> patterns, enablePythonStyle |-> python, buffer |-> "",
   inFence |-> FALSE, fenceStartBuffer |-> "",
   currentFencePattern |-> NoPattern]

addChunk(d, chunk) == [d EXCEPT !.buffer = d.buffer \o chunk]

hasContent(d) == Len(d.buffer) > 0

clearBuffer(d) == [d EXCEPT !.buffer = ""]

\* detectStreamingFence, no fence start found: all but the overlap is safe
emitSafeText(d, safeTextLength) ==
  [d |-> [d EXCEPT !.buffer = SliceFrom(d.buffer, safeTextLength)],
   r |-> Result(FALSE, Slice(d.buffer, 0, safeTextLength), "", "")]

\* skipNewline that takes the character after a ^^^ marker whatever it is
skipNewline_any(pattern, rest) ==
  IF StartsWith(pattern.start, "^^^") /\ rest # "" THEN SliceFrom(rest, 1) ELSE rest

\* the buffer past the fence start marker, less one newline after a ^^^ marker
skipNewline(pattern, rest) ==
  IF StartsWith(pattern.start, "^^^") /\ StartsWith(rest, "\n")
  THEN SliceFrom(rest, 1) ELSE rest

\* enterFence that moves the buffer to the marker, not past it
enterFence_marker(d, f) ==
  [d |-> [d EXCEPT !.buffer = SliceFrom(d.buffer, f.index),
                   !.inFence = TRUE,
                   !.fenceStartBuffer = "",
                   !.currentFencePattern = f.pattern],
   r |-> Result(TRUE, Slice(d.buffer, 0, f.index), "", "")]

\* detectStreamingFence, fence start f found
enterFence(d, f) ==
  [d |-> [d EXCEPT !.buffer = skipNewline(f.pattern,
                                SliceFrom(d.buffer, f.index + Len(f.prefix))),
                   !.inFence = TRUE,
                   !.fenceStartBuffer = "",
                   !.currentFencePattern = f.pattern],
   r |-> Result(TRUE, Slice(d.buffer, 0, f.index), "", "")]

\* detectStreamingFence outside a fence, f the result of findFenceStart
afterFindStart(d, f) ==
  IF f.index = -1
  THEN emitSafeText(d, Len(d.buffer)
         - computeOverlapLength(d.buffer, fenceStarts(d.fencePatterns)))
  ELSE enterFence(d, f)

detectOutside(d) ==
  afterFindStart(d, findFenceStart(d.buffer, d.fencePatterns, d.enablePythonStyle))

\* this.currentFencePattern?.end ?? the markdown end marker
fenceEndOf(d) ==
  IF d.currentFencePattern.isNull THEN "^^^" ELSE d.currentFencePattern.end

\* this.currentFencePattern?.reconstructStart ?? the markdown start
reconstructStartOf(d) ==
  IF d.currentFencePattern.isNull THEN "^^^tool_call\n"
  ELSE d.currentFencePattern.reconstructStart

\* detectStreamingFence inside a fence, no end marker in the buffer
accumulate(d, safeContentLength) ==
  IF safeContentLength > 0
  THEN [d |-> [d EXCEPT
                 !.fenceStartBuffer =
                   d.fenceStartBuffer \o Slice(d.buffer, 0, safeContentLength),
                 !.buffer = SliceFrom(d.buffer, safeContentLength)],
        r |-> Result(TRUE, Slice(d.buffer, 0, safeContentLength), "", "")]
  ELSE [d |-> d, r |-> Result(TRUE, "", "", "")]

\* closeFence that reconstructs the fence from the buffer alone
closeFence_last(d, fenceEnd, closingIdx) ==
  [d |-> [d EXCEPT !.inFence = FALSE, !.fenceStartBuffer = "",
                   !.currentFencePattern = NoPattern,
                   !.buffer = SliceFrom(d.buffer, closingIdx + Len(fenceEnd))],
   r |-> Result(FALSE, Slice(d.buffer, 0, closingIdx),
                reconstructStartOf(d) \o Slice(d.buffer, 0, closingIdx)
                  \o fenceEnd,
                SliceFrom(d.buffer, closingIdx + Len(fenceEnd)))]

\* detectStreamingFence inside a fence, end marker fenceEnd found at closingIdx
closeFence(d, fenceEnd, closingIdx) ==
  [d |-> [d EXCEPT !.inFence = FALSE, !.fenceStartBuffer = "",
                   !.currentFencePattern = NoPattern,
                   !.buffer = SliceFrom(d.buffer, closingIdx + Len(fenceEnd))],
   r |-> Result(FALSE, Slice(d.buffer, 0, closingIdx),
                reconstructStartOf(d) \o d.fenceStartBuffer
                  \o Slice(d.buffer, 0, closingIdx) \o fenceEnd,
                SliceFrom(d.buffer, closingIdx + Len(fenceEnd)))]

\* afterFindEnd that holds nothing back in the buffer
afterFindEnd_all(d, fenceEnd, closingIdx) ==
  IF closingIdx = -1 THEN accumulate(d, Len(d.buffer))
  ELSE closeFence(d, fenceEnd, closingIdx)

afterFindEnd(d, fenceEnd, closingIdx) ==
  IF closingIdx = -1
  THEN accumulate(d, Len(d.buffer) - computeOverlapLength(d.buffer, <<fenceEnd>>))
  ELSE closeFence(d, fenceEnd, closingIdx)

detectInside(d) == afterFindEnd(d, fenceEndOf(d), IndexOf(d.buffer, fenceEndOf(d)))

detectStreamingFence(d) == IF ~d.inFence THEN detectOutside(d) ELSE detectInside(d)

(* ------------------------------------------------------------------ *)
(* extractArgumentsDelta and extractArgumentsContent                   *)
(* ------------------------------------------------------------------ *)

ARGUMENTS_SEARCH_OVERLAP == 32

\* valueStartIndex = null is written -1
createArgumentsStreamState ==
  [searchFrom |-> 0, valueStartIndex |-> -1, parseIndex |-> 0,
   started |-> FALSE, depth |-> 0, inString |-> FALSE, escaped |-> FALSE,
   complete |-> FALSE]

\* whether /"arguments"\s*:\s*/ matches at i
ArgumentsKeyAt(content, i) ==
  /\ StartsWithAt(content, "\"arguments\"", i)
  /\ CharAt(content, RunEnd(content, i + Len("\"arguments\""), SpaceChars)) = ":"

\* the end of the match of /"arguments"\s*:\s*/ that starts at i
ArgumentsKeyEnd(content, i) ==
  RunEnd(content,
         RunEnd(content, i + Len("\"arguments\""), SpaceChars) + 1, SpaceChars)

\* ARGUMENTS_FIELD_REGEX.exec(content) from lastIndex: the index of the
\* first match at or after lastIndex, -1 for none
ARGUMENTS_FIELD_REGEX(content, lastIndex) ==
  FirstOr({i \in lastIndex..(Len(content) - Len("\"arguments\":")) :
             ArgumentsKeyAt(content, i)})

\* the body of the scanning loop for one character outside the first
\* branch (started): the scanner state after char; depth 0 with
\* complete set means the loop returns here
scanStarted(st, char) ==
  IF st.escaped THEN [st EXCEPT !.escaped = FALSE]
  ELSE IF char = "\\" THEN [st EXCEPT !.escaped = TRUE]
  ELSE IF char = "\"" THEN [st EXCEPT !.inString = ~st.inString]
  ELSE IF st.inString THEN st
  ELSE IF char \in {"{", "["} THEN [st EXCEPT !.depth = st.depth + 1]
  ELSE IF char \in {"}", "]"} /\ st.depth > 0
  THEN [st EXCEPT !.depth = st.depth - 1, !.complete = (st.depth = 1)]
  ELSE st

\* the body of the scanning loop for one character
scanChar(st, char) ==
  IF ~st.started
  THEN IF char \in SpaceChars THEN st
       ELSE [st EXCEPT !.started = TRUE,
                       !.depth = IF char \in {"{", "["} THEN 1 ELSE st.depth]
  ELSE scanStarted(st, char)

RECURSIVE scanLoop(_, _, _, _)
RECURSIVE scanNext(_, _, _, _)

\* scanNext that leaves parseIndex at the closing bracket
scanNext_at(content, i, st, delta) ==
  IF st.complete
  THEN [delta |-> delta, state |-> [st EXCEPT !.parseIndex = i]]
  ELSE scanLoop(content, i + 1, st, delta)

\* the for loop of extractArgumentsDelta from index i, delta so far
scanLoop(content, i, st, delta) ==
  IF i >= Len(content)
  THEN [delta |-> delta, state |-> [st EXCEPT !.parseIndex = Len(content)]]
  ELSE scanNext(content, i, scanChar(st, CharAt(content, i)),
                delta \o CharAt(content, i))

\* after the character at i: return when the value is complete
scanNext(content, i, st, delta) ==
  IF st.complete
  THEN [delta |-> delta, state |-> [st EXCEPT !.parseIndex = i + 1]]
  ELSE scanLoop(content, i + 1, st, delta)

\* extractArgumentsDelta once the key has been located
scanFrom(content, st) ==
  IF st.parseIndex >= Len(content) THEN [delta |-> "", state |-> st]
  ELSE scanLoop(content, st.parseIndex, st, "")

\* extractArgumentsDelta while valueStartIndex is null: idx is the match
locateKey(content, st, idx) ==
  IF idx = -1
  THEN [delta |-> "",
        state |-> [st EXCEPT !.searchFrom =
                     MaxOf(0, Len(content) - ARGUMENTS_SEARCH_OVERLAP)]]
  ELSE scanFrom(content,
         [st EXCEPT !.valueStartIndex = ArgumentsKeyEnd(content, idx),
                    !.parseIndex = ArgumentsKeyEnd(content, idx),
                    !.searchFrom = ArgumentsKeyEnd(content, idx)])

\* extractArgumentsDelta without the early return on state.complete
extractArgumentsDelta_rescan(content, st) ==
  IF st.valueStartIndex = -1
  THEN locateKey(content, st, ARGUMENTS_FIELD_REGEX(content, st.searchFrom))
  ELSE scanFrom(content, st)

\* extractArgumentsDelta(content, state): the delta returned and the state
\* as the call leaves it
extractArgumentsDelta(content, st) ==
  IF st.complete THEN [delta |-> "", state |-> st]
  ELSE IF st.valueStartIndex = -1
  THEN locateKey(content, st, ARGUMENTS_FIELD_REGEX(content, st.searchFrom))
  ELSE scanFrom(content, st)

\* extractArgumentsContent of the language models: the one-shot extraction
\* of the text after "arguments": up to the bracket closing the value
contentFrom(content, idx) ==
  IF idx = -1 THEN ""
  ELSE scanLoop(content, ArgumentsKeyEnd(content, idx),
                createArgumentsStreamState, "").delta

extractArgumentsContent(content) ==
  contentFrom(content, ARGUMENTS_FIELD_REGEX(content, 0))

\* ARGUMENTS_FIELD_REGEX is one object of the module, with the flag g: exec
\* starts at its lastIndex and leaves it at the end of the match, or at 0
\* where there is none
regexExec(content, lastIndex, idx) ==
  [index |-> idx,
   lastIndex |-> IF idx = -1 THEN 0 ELSE ArgumentsKeyEnd(content, idx)]

\* the search without lastIndex set before exec and reset after it
execArgumentsField_cursor(content, st, lastIndex) ==
  regexExec(content, lastIndex,
            IF lastIndex > Len(content) THEN -1
            ELSE ARGUMENTS_FIELD_REGEX(content, lastIndex))

\* the search of extractArgumentsDelta: lastIndex is set to searchFrom,
\* exec is called, lastIndex is set back to 0
execArgumentsField(content, st, lastIndex) ==
  [regexExec(content, st.searchFrom,
             ARGUMENTS_FIELD_REGEX(content, st.searchFrom))
     EXCEPT !.lastIndex = 0]

\* extractArgumentsDelta with the lastIndex of the regular expression as
\* the call finds it and as it leaves it
withLastIndex(out, lastIndex) ==
  [delta |-> out.delta, state |-> out.state, lastIndex |-> lastIndex]
extractArgumentsDeltaAt(content, st, lastIndex) ==
  IF st.complete THEN [delta |-> "", state |-> st, lastIndex |-> lastIndex]
  ELSE IF st.valueStartIndex = -1
  THEN withLastIndex(
         locateKey(content, st, execArgumentsField(content, st, lastIndex).index),
         execArgumentsField(content, st, lastIndex).lastIndex)
  ELSE withLastIndex(scanFrom(content, st), lastIndex)

(* ------------------------------------------------------------------ *)
(* JSON.parse and the values it returns                                *)
(* ------------------------------------------------------------------ *)

\* A JavaScript value: t is its kind, s the text of a string or the
\* literal of a number, keys and items the properties of an object in
\* insertion order, items the elements of an array.
JV(t, s, keys, items) == [t |-> t, s |-> s, keys |-> keys, items |-> items]
JUndefined == JV("undefined", "", << >>, << >>)
JNull == JV("null", "", << >>, << >>)
JTrue == JV("true", "", << >>, << >>)
JFalse == JV("false", "", << >>, << >>)
JNum(lit) == JV("number", lit, << >>, << >>)
JStr(s) == JV("string", s, << >>, << >>)
JArr(items) == JV("array", "", << >>, items)
JObj(keys, items) == JV("object", "", keys, items)
EmptyObject == JObj(<< >>, << >>)

\* the index of key among the keys of an object, 0 when it has none
KeyIndex(keys, key) == Max({0} \cup {k \in 1..Len(keys) : keys[k] = key})

\* obj[key] = v: a key already there keeps its place
setProp(obj, key, v) ==
  IF KeyIndex(obj.keys, key) = 0
  THEN JObj(Append(obj.keys, key), Append(obj.items, v))
  ELSE JObj(obj.keys, [obj.items EXCEPT ![KeyIndex(obj.keys, key)] = v])

\* v.key for a value that is not null: undefined unless v is an object
\* with that key (no string, array, number or boolean has a property
\* named name, arguments, parameters or id)
getProp(v, key) ==
  IF v.t = "object" /\ KeyIndex(v.keys, key) > 0
  THEN v.items[KeyIndex(v.keys, key)] ELSE JUndefined

Digits == {"0", "1", "2", "3", "4", "5", "6", "7", "8", "9"}
HexDigits == Digits \cup {"a", "b", "c", "d", "e", "f", "A", "B", "C", "D", "E", "F"}

\* a number literal is zero when its mantissa has no digit but 0
RECURSIVE IsZeroLiteral(_, _)
IsZeroLiteral(lit, i) ==
  \/ i >= Len(lit)
  \/ CharAt(lit, i) \in {"e", "E"}
  \/ CharAt(lit, i) \in {"-", ".", "0"} /\ IsZeroLiteral(lit, i + 1)

\* the truthiness of a value
Truthy(v) ==
  CASE v.t \in {"undefined", "null", "false"} -> FALSE
    [] v.t = "number" -> ~IsZeroLiteral(v.s, 0)
    [] v.t = "string" -> v.s # ""
    [] OTHER -> TRUE

\* the outcome of a parsing step: the value read and the index after it
ParseFail == [ok |-> FALSE, v |-> JUndefined, p |-> 0]
ParseOk(v, p) == [ok |-> TRUE, v |-> v, p |-> p]

\* the white space of JSON
skipWs(s, i) == RunEnd(s, i, SpaceChars)

\* the character an escape stands for; \b, \f and \uXXXX are kept as written
Unescape(e) ==
  CASE e = "n" -> "\n" [] e = "t" -> "\t" [] e = "r" -> "\r"
    [] e \in {"\"", "\\", "/"} -> e
    [] OTHER -> "\\" \o e

\* whether the four characters from i are hexadecimal digits
IsHex4(s, i) == \A k \in 0..3 : CharAt(s, i + k) \in HexDigits

\* a string from the character after its opening quote
RECURSIVE parseString(_, _, _)
parseString(s, i, acc) ==
  CASE i >= Len(s) -> ParseFail
    [] CharAt(s, i) = "\"" -> ParseOk(JStr(acc), i + 1)
    [] CharAt(s, i) \in {"\n", "\t", "\r"} -> ParseFail
    [] CharAt(s, i) = "\\" ->
         IF CharAt(s, i + 1) \in {"\"", "\\", "/", "b", "f", "n", "r", "t"}
         THEN parseString(s, i + 2, acc \o Unescape(CharAt(s, i + 1)))
         ELSE IF CharAt(s, i + 1) = "u" /\ IsHex4(s, i + 2)
         THEN parseString(s, i + 6, acc \o Slice(s, i, i + 6))
         ELSE ParseFail
    [] OTHER -> parseString(s, i + 1, acc \o CharAt(s, i))

\* the exponent of a number from j, the literal starting at i
numExp(s, i, j) ==
  IF CharAt(s, j) \in {"e", "E"}
  THEN IF RunEnd(s, RunEnd(s, j + 1, {"+", "-"}), Digits) > RunEnd(s, j + 1, {"+", "-"})
          /\ RunEnd(s, j + 1, {"+", "-"}) <= j + 2
       THEN ParseOk(JNum(Slice(s, i, RunEnd(s, RunEnd(s, j + 1, {"+", "-"}), Digits))),
                    RunEnd(s, RunEnd(s, j + 1, {"+", "-"}), Digits))
       ELSE ParseFail
  ELSE ParseOk(JNum(Slice(s, i, j)), j)

\* the fraction of a number from j
numFrac(s, i, j) ==
  IF CharAt(s, j) = "."
  THEN IF RunEnd(s, j + 1, Digits) > j + 1
       THEN numExp(s, i, RunEnd(s, j + 1, Digits)) ELSE ParseFail
  ELSE numExp(s, i, j)

\* the integer part of a number from j, after the sign
numInt(s, i, j) ==
  IF CharAt(s, j) = "0" THEN numFrac(s, i, j + 1)
  ELSE IF CharAt(s, j) \in Digits THEN numFrac(s, i, RunEnd(s, j, Digits))
  ELSE ParseFail

parseNumber(s, i) == numInt(s, i, IF CharAt(s, i) = "-" THEN i + 1 ELSE i)

RECURSIVE parseValue(_, _)
RECURSIVE parseElements(_, _, _, _)
RECURSIVE elementThen(_, _, _)
RECURSIVE afterElement(_, _, _)
RECURSIVE parseMembers(_, _, _, _)
RECURSIVE memberKey(_, _, _)
RECURSIVE memberColon(_, _, _, _)
RECURSIVE memberValue(_, _, _, _)
RECURSIVE afterMember(_, _, _)

\* a value from its first character
parseValue(s, i) ==
  CASE CharAt(s, i) = "{" -> parseMembers(s, skipWs(s, i + 1), EmptyObject, TRUE)
    [] CharAt(s, i) = "[" -> parseElements(s, skipWs(s, i + 1), << >>, TRUE)
    [] CharAt(s, i) = "\"" -> parseString(s, i + 1, "")
    [] CharAt(s, i) \in Digits \cup {"-"} -> parseNumber(s, i)
    [] StartsWithAt(s, "true", i) -> ParseOk(JTrue, i + 4)
    [] StartsWithAt(s, "false", i) -> ParseOk(JFalse, i + 5)
    [] StartsWithAt(s, "null", i) -> ParseOk(JNull, i + 4)
    [] OTHER -> ParseFail

\* the elements of an array
parseElements(s, i, items, first) ==
  IF first /\ CharAt(s, i) = "]" THEN ParseOk(JArr(items), i + 1)
  ELSE elementThen(s, parseValue(s, i), items)

elementThen(s, r, items) ==
  IF r.ok THEN afterElement(s, skipWs(s, r.p), Append(items, r.v)) ELSE ParseFail

afterElement(s, j, items) ==
  CASE CharAt(s, j) = "," -> parseElements(s, skipWs(s, j + 1), items, FALSE)
    [] CharAt(s, j) = "]" -> ParseOk(JArr(items), j + 1)
    [] OTHER -> ParseFail

\* the members of an object
parseMembers(s, i, obj, first) ==
  IF first /\ CharAt(s, i) = "}" THEN ParseOk(obj, i + 1)
  ELSE IF CharAt(s, i) = "\"" THEN memberKey(s, parseString(s, i + 1, ""), obj)
  ELSE ParseFail

memberKey(s, k, obj) ==
  IF k.ok THEN memberColon(s, skipWs(s, k.p), k.v.s, obj) ELSE ParseFail

memberColon(s, j, key, obj) ==
  IF CharAt(s, j) = ":"
  THEN memberValue(s, parseValue(s, skipWs(s, j + 1)), key, obj)
  ELSE ParseFail

memberValue(s, r, key, obj) ==
  IF r.ok THEN afterMember(s, skipWs(s, r.p), setProp(obj, key, r.v)) ELSE ParseFail

afterMember(s, j, obj) ==
  CASE CharAt(s, j) = "," -> parseMembers(s, skipWs(s, j + 1), obj, FALSE)
    [] CharAt(s, j) = "}" -> ParseOk(obj, j + 1)
    [] OTHER -> ParseFail

\* a whole text is one value with white space around it
wholeValue(s, r) == IF r.ok /\ skipWs(s, r.p) = Len(s) THEN r ELSE ParseFail

\* JSON.parse(s): ok is FALSE where it throws a SyntaxError
JSON_parse(s) == wholeValue(s, parseValue(s, skipWs(s, 0)))

(* ------------------------------------------------------------------ *)
(* parseJsonFunctionCalls                                              *)
(* ------------------------------------------------------------------ *)

DEFAULT_OPTIONS ==
  [supportXmlTags |-> TRUE, supportPythonStyle |-> TRUE,
   supportParametersField |-> TRUE]

\* the i flag of the regular expression: text folded to lower case
UpperCase == "ABCDEFGHIJKLMNOPQRSTUVWXYZ"
LowerCase == "abcdefghijklmnopqrstuvwxyz"
foldChar(c, k) == IF k = -1 THEN c ELSE CharAt(LowerCase, k)
RECURSIVE ignoreCase(_)
ignoreCase(s) ==
  IF s = "" THEN ""
  ELSE foldChar(CharAt(s, 0), IndexOf(UpperCase, CharAt(s, 0)))
         \o ignoreCase(SliceFrom(s, 1))

\* s.trim()
RECURSIVE RunStart(_, _, _)
RunStart(s, c, w) ==
  IF c > w /\ CharAt(s, c - 1) \in SpaceChars THEN RunStart(s, c - 1, w) ELSE c
trim(s) ==
  Slice(s, RunEnd(s, 0, SpaceChars), RunStart(s, Len(s), RunEnd(s, 0, SpaceChars)))

\* s.split(sep)
RECURSIVE split(_, _)
RECURSIVE splitAt(_, _, _)
split(s, sep) == splitAt(s, sep, IndexOf(s, sep))
splitAt(s, sep, k) ==
  IF k = -1 THEN <<s>>
  ELSE <<Slice(s, 0, k)>> \o split(SliceFrom(s, k + Len(sep)), sep)

\* s.substring(a, b) for a, b >= 0
substring(s, a, b) == Slice(s, MinOf(a, b), MaxOf(a, b))

\* s.replace(what, ""): the first occurrence of the string what removed
removeAt(s, what, idx) ==
  IF idx = -1 THEN s ELSE Slice(s, 0, idx) \o SliceFrom(s, idx + Len(what))
replaceFirst(s, what) == removeAt(s, what, IndexOf(s, what))

\* s.replace(/\n{2,}/g, "\n")
RECURSIVE collapseNewlines(_)
collapseNewlines(s) ==
  IF Len(s) < 2 THEN s
  ELSE IF StartsWith(s, "\n\n") THEN collapseNewlines(SliceFrom(s, 1))
  ELSE CharAt(s, 0) \o collapseNewlines(SliceFrom(s, 1))

\* a match of the regular expression of buildRegex: text is match[0],
\* inner is match[1] || match[2] || "", funcName and pythonArgs the
\* groups of the bracket-call alternative
NoMatch ==
  [index |-> -1, end |-> -1, text |-> "", inner |-> "", funcName |-> "",
   pythonArgs |-> ""]
FenceMatch(s, i, e, inner) ==
  [index |-> i, end |-> e, text |-> Slice(s, i, e), inner |-> inner,
   funcName |-> "", pythonArgs |-> ""]

\* the end of ^^^tool[_-]?call at i of the folded text ls, -1 for no match
mdOpenEnd(ls, i) ==
  IF ~StartsWithAt(ls, "^^^tool", i) THEN -1
  ELSE IF StartsWithAt(ls, "call", i + 7) THEN i + 11
  ELSE IF CharAt(ls, i + 7) \in {"_", "-"} /\ StartsWithAt(ls, "call", i + 8)
  THEN i + 12
  ELSE -1

\* ^^^tool[_-]?call\s*([\s\S]*?)^^^ at i: o is the end of the opening
\* marker, w the end of the white space after it, c the first ^^^ from w
mdClose(s, i, w, c) ==
  IF c = -1 THEN NoMatch ELSE FenceMatch(s, i, c + 3, Slice(s, w, c))
mdBody(s, i, w) == mdClose(s, i, w, IndexOfFrom(s, "^^^", w))
mdMatch(s, i, o) == IF o = -1 THEN NoMatch ELSE mdBody(s, i, skipWs(s, o))

\* <tool_call>\s*([\s\S]*?)\s*</tool_call> at i: w is the end of the
\* white space after the opening tag, c the first closing tag from w
xmlClose(s, i, w, c) ==
  IF c = -1 THEN NoMatch
  ELSE FenceMatch(s, i, c + Len("</tool_call>"), Slice(s, w, RunStart(s, c, w)))
xmlBody(s, ls, i, w) == xmlClose(s, i, w, IndexOfFrom(ls, "</tool_call>", w))
xmlMatch(s, ls, i) ==
  IF StartsWithAt(ls, "<tool_call>", i)
  THEN xmlBody(s, ls, i, skipWs(s, i + Len("<tool_call>")))
  ELSE NoMatch

\* \[(\w+)\(([^)]*)\)\] at i: ne is the end of the run of \w after the
\* bracket, q the first closing parenthesis after the opening one
pyClose(s, i, ne, q) ==
  IF q # -1 /\ CharAt(s, q + 1) = "]"
  THEN [index |-> i, end |-> q + 2, text |-> Slice(s, i, q + 2), inner |-> "",
        funcName |-> Slice(s, i + 1, ne), pythonArgs |-> Slice(s, ne + 1, q)]
  ELSE NoMatch
pyMatch(s, i, ne) ==
  IF i < Len(s) /\ PythonStartAt(s, i, ne)
  THEN pyClose(s, i, ne, IndexOfFrom(s, ")", ne + 1))
  ELSE NoMatch

\* the alternatives of buildRegex(options) tried in order at i
buildRegex(options, s, ls, i) ==
  IF mdMatch(s, i, mdOpenEnd(ls, i)).index # -1
  THEN mdMatch(s, i, mdOpenEnd(ls, i))
  ELSE IF options.supportXmlTags /\ xmlMatch(s, ls, i).index # -1
  THEN xmlMatch(s, ls, i)
  ELSE IF options.supportPythonStyle
  THEN pyMatch(s, i, RunEnd(s, i + 1, WordChars))
  ELSE NoMatch

\* Array.from(response.matchAll(regex)) from index i on
RECURSIVE matchAll(_, _, _, _)
RECURSIVE matchNext(_, _, _, _, _)
matchAll(options, s, ls, i) ==
  IF i >= Len(s) THEN << >>
  ELSE matchNext(options, s, ls, i, buildRegex(options, s, ls, i))
matchNext(options, s, ls, i, m) ==
  IF m.index = -1 THEN matchAll(options, s, ls, i + 1)
  ELSE <<m>> \o matchAll(options, s, ls, m.end)

\* a ParsedToolCall; toolCallId, toolName and args are JavaScript values
ToolCall(id, name, args) ==
  [type |-> "tool-call", toolCallId |-> id, toolName |-> name, args |-> args]

\* generateToolCallId(): the time and the random part are not modelled
generateToolCallId == JStr("call_<now>_<random>")

\* the value of a bracket-call argument without its quotes
stripQuotes(value) ==
  IF \/ StartsWith(value, "\"") /\ EndsWith(value, "\"")
     \/ StartsWith(value, "'") /\ EndsWith(value, "'")
  THEN substring(value, 1, Len(value) - 1)
  ELSE value

\* one pair of the bracket-call arguments, its = at equalIndex
pairInto(args, pair, equalIndex) ==
  IF equalIndex > 0
  THEN setProp(args, trim(substring(pair, 0, equalIndex)),
               JStr(stripQuotes(trim(SliceFrom(pair, equalIndex + 1)))))
  ELSE args

RECURSIVE pythonPairs(_, _, _)
pythonPairs(argPairs, k, args) ==
  IF k > Len(argPairs) THEN args
  ELSE pythonPairs(argPairs, k + 1,
         pairInto(args, trim(argPairs[k]), IndexOf(trim(argPairs[k]), "=")))

\* the args of a bracket call
pythonArgsOf(pythonArgs) ==
  IF trim(pythonArgs) # "" THEN pythonPairs(split(pythonArgs, ","), 1, EmptyObject)
  ELSE EmptyObject

\* call.arguments || (supportParametersField ? call.parameters : null) || {}
selectArgs(call, options) ==
  IF Truthy(getProp(call, "arguments")) THEN getProp(call, "arguments")
  ELSE IF options.supportParametersField /\ Truthy(getProp(call, "parameters"))
  THEN getProp(call, "parameters")
  ELSE EmptyObject

\* args that are a string are parsed as JSON, and kept where that fails
parsedOr(args, r) == IF r.ok THEN r.v ELSE args
resolveArgs(args) ==
  IF args.t = "string" THEN parsedOr(args, JSON_parse(args.s)) ELSE args

\* the tool call pushed for a candidate that has a name
toolCallOf(call, options) ==
  ToolCall(IF Truthy(getProp(call, "id")) THEN getProp(call, "id")
           ELSE generateToolCallId,
           getProp(call, "name"),
           resolveArgs(selectArgs(call, options)))

\* for (const call of callsArray) from element k: threw is TRUE where
\* call.name throws a TypeError (call is null)
RECURSIVE pushCalls(_, _, _, _)
pushCalls(callsArray, k, toolCalls, options) ==
  IF k > Len(callsArray) THEN [toolCalls |-> toolCalls, threw |-> FALSE]
  ELSE IF callsArray[k].t = "null" THEN [toolCalls |-> toolCalls, threw |-> TRUE]
  ELSE IF ~Truthy(getProp(callsArray[k], "name"))
  THEN pushCalls(callsArray, k + 1, toolCalls, options)
  ELSE pushCalls(callsArray, k + 1,
                 Append(toolCalls, toolCallOf(callsArray[k], options)), options)

\* one line of the fallback: r is JSON.parse of the trimmed line; a line
\* that does not parse, or parses to null, is skipped by the catch
lineCall(toolCalls, r, options) ==
  IF r.ok /\ r.v.t # "null" /\ Truthy(getProp(r.v, "name"))
  THEN Append(toolCalls, toolCallOf(r.v, options))
  ELSE toolCalls

\* the fallback over the non-blank lines of the fence content
RECURSIVE pushLines(_, _, _, _)
pushLines(lines, k, toolCalls, options) ==
  IF k > Len(lines) THEN toolCalls
  ELSE IF trim(lines[k]) = "" THEN pushLines(lines, k + 1, toolCalls, options)
  ELSE pushLines(lines, k + 1,
                 lineCall(toolCalls, JSON_parse(trim(lines[k])), options), options)

callsArrayOf(parsed) == IF parsed.t = "array" THEN parsed.items ELSE <<parsed>>

\* the inner catch: the fallback runs when the loop over callsArray threw
afterSingle(trimmed, res, options) ==
  IF res.threw
  THEN pushLines(split(trimmed, "\n"), 1, res.toolCalls, options)
  ELSE res.toolCalls

\* the inner try of one match: r is JSON.parse(trimmed)
parseInner(trimmed, r, toolCalls, options) ==
  IF r.ok
  THEN afterSingle(trimmed, pushCalls(callsArrayOf(r.v), 1, toolCalls, options),
                   options)
  ELSE pushLines(split(trimmed, "\n"), 1, toolCalls, options)

\* the tool calls after the iteration of the loop for match m
matchCalls(m, toolCalls, options) ==
  IF options.supportPythonStyle /\ StartsWith(m.text, "[")
  THEN Append(toolCalls,
              ToolCall(generateToolCallId, JStr(m.funcName),
                       pythonArgsOf(m.pythonArgs)))
  ELSE IF trim(m.inner) = "" THEN toolCalls
  ELSE parseInner(trim(m.inner), JSON_parse(trim(m.inner)), toolCalls, options)

\* one iteration of for (const match of matches)
matchStep(st, m, options) ==
  [toolCalls |-> matchCalls(m, st.toolCalls, options),
   textContent |-> replaceFirst(st.textContent, m.text)]

RECURSIVE matchLoop(_, _, _, _)
matchLoop(matches, k, st, options) ==
  IF k > Len(matches) THEN st
  ELSE matchLoop(matches, k + 1, matchStep(st, matches[k], options), options)

\* the return after the loop
parsedResponse(st) ==
  [toolCalls |-> st.toolCalls,
   textContent |-> trim(collapseNewlines(st.textContent))]

parseMatches(response, matches, options) ==
  IF matches = << >> THEN [toolCalls |-> << >>, textContent |-> response]
  ELSE parsedResponse(
         matchLoop(matches, 1, [toolCalls |-> << >>, textContent |-> response],
                   options))

\* parseJsonFunctionCalls(response, options)
parseJsonFunctionCalls(response, options) ==
  parseMatches(response, matchAll(options, response, ignoreCase(response), 0),
               options)

(* ------------------------------------------------------------------ *)
(* doStream: the fence processing loop of the language models          *)
(* ------------------------------------------------------------------ *)

\* extractToolName: the group of the first match of
\* /\{\s*"name"\s*:\s*"([^"]+)"/ in content, "" for null; q is the index
\* of the quote that opens the name, e the index of the one that closes it
toolNameClosed(content, q, e) ==
  IF e # -1 /\ e > q + 1 THEN Slice(content, q + 1, e) ELSE ""
toolNameQuoted(content, q) ==
  IF CharAt(content, q) = "\""
  THEN toolNameClosed(content, q, IndexOfFrom(content, "\"", q + 1))
  ELSE ""
toolNameColon(content, c) ==
  IF CharAt(content, c) = ":" THEN toolNameQuoted(content, skipWs(content, c + 1))
  ELSE ""
toolNameKey(content, k) ==
  IF StartsWithAt(content, "\"name\"", k)
  THEN toolNameColon(content, skipWs(content, k + Len("\"name\"")))
  ELSE ""
toolNameAt(content, i) ==
  IF CharAt(content, i) = "{" THEN toolNameKey(content, skipWs(content, i + 1))
  ELSE ""
extractToolName(content) ==
  IF \E i \in 0..(Len(content) - 1) : toolNameAt(content, i) # ""
  THEN toolNameAt(content,
         Min({i \in 0..(Len(content) - 1) : toolNameAt(content, i) # ""}))
  ELSE ""

\* JSON.stringify of a string
RECURSIVE quoteChars(_)
quoteChars(s) ==
  IF s = "" THEN ""
  ELSE (CASE CharAt(s, 0) = "\"" -> "\\\""
          [] CharAt(s, 0) = "\\" -> "\\\\"
          [] CharAt(s, 0) = "\n" -> "\\n"
          [] CharAt(s, 0) = "\t" -> "\\t"
          [] CharAt(s, 0) = "\r" -> "\\r"
          [] OTHER -> CharAt(s, 0)) \o quoteChars(SliceFrom(s, 1))
quote(s) == "\"" \o quoteChars(s) \o "\""

\* the text of a number; the number literals of the inputs are integers
numberToString(lit) == IF lit = "-0" THEN "0" ELSE lit

\* JSON.stringify(v) for a value that JSON.parse returned
RECURSIVE JSON_stringify(_)
RECURSIVE stringifyItems(_, _)
RECURSIVE stringifyProps(_, _, _)
JSON_stringify(v) ==
  CASE v.t = "object" -> "{" \o stringifyProps(v.keys, v.items, 1) \o "}"
    [] v.t = "array" -> "[" \o stringifyItems(v.items, 1) \o "]"
    [] v.t = "string" -> quote(v.s)
    [] v.t = "number" -> numberToString(v.s)
    [] OTHER -> v.t
stringifyItems(items, k) ==
  IF k > Len(items) THEN ""
  ELSE (IF k > 1 THEN "," ELSE "") \o JSON_stringify(items[k])
         \o stringifyItems(items, k + 1)
stringifyProps(keys, items, k) ==
  IF k > Len(keys) THEN ""
  ELSE (IF k > 1 THEN "," ELSE "") \o quote(keys[k]) \o ":"
         \o JSON_stringify(items[k]) \o stringifyProps(keys, items, k + 1)

\* a LanguageModelV3StreamPart: id is the part's id or toolCallId, data
\* its delta, input or raw finish reason
Event(type, id, toolName, data) ==
  [type |-> type, id |-> id, toolName |-> toolName, data |-> data]

textId == JStr("text-0")

\* The state of one doStream run: the position pc ("read": awaiting the
\* next chunk; "loop": at the head of the fence processing loop; "end":
\* the read loop was left; "closed": the stream is closed), the parts
\* enqueued, and the variables of the closure.  toolBlockDetected, toolCalls
\* and trailingTextAfterBlock are those of the core model, toolCallDetected
\* and accumulatedText those of the transformers-js model.
NewStream ==
  [pc |-> "read",
   events |-> <<Event("stream-start", JUndefined, JUndefined, "")>>,
   textStarted |-> FALSE, finished |-> FALSE,
   toolCalls |-> << >>, toolBlockDetected |-> FALSE,
   trailingTextAfterBlock |-> "",
   toolCallDetected |-> FALSE, accumulatedText |-> "",
   currentToolCallId |-> JNull, toolInputStartEmitted |-> FALSE,
   accumulatedFenceContent |-> "", streamedArgumentsLength |-> 0,
   insideFence |-> FALSE,
   ids |-> 0, closedFences |-> 0]

enqueue(s, e) == [s EXCEPT !.events = Append(@, e)]

ensureTextStart(s) ==
  IF s.textStarted THEN s
  ELSE [enqueue(s, Event("text-start", textId, JUndefined, ""))
          EXCEPT !.textStarted = TRUE]

emitTextDelta(s, delta) ==
  IF delta = "" THEN s
  ELSE enqueue(ensureTextStart(s), Event("text-delta", textId, JUndefined, delta))

emitTextEndIfNeeded(s) ==
  IF ~s.textStarted THEN s
  ELSE [enqueue(s, Event("text-end", textId, JUndefined, ""))
          EXCEPT !.textStarted = FALSE]

\* finishStream(finishReason) of the core model; controller.close()
finishStream(s, raw) ==
  IF s.finished THEN s
  ELSE [enqueue(emitTextEndIfNeeded([s EXCEPT !.finished = TRUE]),
                Event("finish", JUndefined, JUndefined, raw))
          EXCEPT !.pc = "closed"]

\* call_${Date.now()}_${Math.random()...}: the n-th id allocated
newToolCallId(n) == JStr("call_" \o ToString(n))

\* the per-call streaming state cleared
resetCall(s) ==
  [s EXCEPT !.currentToolCallId = JNull, !.toolInputStartEmitted = FALSE,
            !.accumulatedFenceContent = "", !.streamedArgumentsLength = 0,
            !.insideFence = FALSE]

\* the part of argsContent not yet streamed goes out as a tool-input-delta
streamArguments(s, id, argsContent) ==
  IF Len(argsContent) > s.streamedArgumentsLength
  THEN [enqueue(s, Event("tool-input-delta", id, JUndefined,
                         SliceFrom(argsContent, s.streamedArgumentsLength)))
          EXCEPT !.streamedArgumentsLength = Len(argsContent)]
  ELSE s

\* accumulatedFenceContent += result.safeContent
accumulateFence(s, safeContent) ==
  [s EXCEPT !.accumulatedFenceContent = @ \o safeContent]

\* the iteration that enters a fence
enterStep(s, r) ==
  [emitTextDelta(s, r.safeContent)
     EXCEPT !.ids = s.ids + 1,
            !.currentToolCallId = newToolCallId(s.ids + 1),
            !.toolInputStartEmitted = FALSE,
            !.accumulatedFenceContent = "",
            !.streamedArgumentsLength = 0,
            !.insideFence = TRUE]

\* tool-input-start as soon as the name can be read from the fence content
earlyStart(s, toolName) ==
  IF toolName # "" /\ ~s.toolInputStartEmitted /\ Truthy(s.currentToolCallId)
  THEN [enqueue(s, Event("tool-input-start", s.currentToolCallId,
                         JStr(toolName), ""))
          EXCEPT !.toolInputStartEmitted = TRUE]
  ELSE s

streamIfStarted(s) ==
  IF s.toolInputStartEmitted /\ Truthy(s.currentToolCallId)
  THEN streamArguments(s, s.currentToolCallId,
                       extractArgumentsContent(s.accumulatedFenceContent))
  ELSE s

\* the iteration inside a fence whose end was not found
insideGrown(s) == streamIfStarted(earlyStart(s, extractToolName(s.accumulatedFenceContent)))
insideStep(s, r) ==
  IF r.safeContent # "" THEN insideGrown(accumulateFence(s, r.safeContent)) ELSE s

\* noCallStep that leaves the streaming state of the call as it is
noCallStep_keep(variant, s, r) ==
  emitTextDelta(emitTextDelta(
    IF variant = "core"
    THEN [s EXCEPT !.toolCalls = << >>, !.toolBlockDetected = FALSE] ELSE s,
    r.completeFence), r.textAfterFence)

\* the completed fence yielded no tool call
noCallStep(variant, s, r) ==
  resetCall(emitTextDelta(emitTextDelta(
    IF variant = "core"
    THEN [s EXCEPT !.toolCalls = << >>, !.toolBlockDetected = FALSE] ELSE s,
    r.completeFence), r.textAfterFence))

\* call.args ?? {}
argsOrEmpty(args) == IF args.t \in {"null", "undefined"} THEN EmptyObject ELSE args

\* the events of the selected call under the id of the fence
sameIdEvents(s, toolCallId, toolName) ==
  streamArguments(
    IF s.toolInputStartEmitted THEN s
    ELSE [enqueue(s, Event("tool-input-start", toolCallId, toolName, ""))
            EXCEPT !.toolInputStartEmitted = TRUE],
    toolCallId, extractArgumentsContent(s.accumulatedFenceContent))

\* the events of a call under an id of its own
otherIdEvents(s, toolCallId, toolName, argsJson) ==
  IF Len(argsJson) > 0
  THEN enqueue(enqueue(s, Event("tool-input-start", toolCallId, toolName, "")),
               Event("tool-input-delta", toolCallId, JUndefined, argsJson))
  ELSE enqueue(s, Event("tool-input-start", toolCallId, toolName, ""))

\* the body of the loop over the selected tool calls
callEvents(s, toolCallId, toolName, argsJson) ==
  enqueue(enqueue(
    IF toolCallId = s.currentToolCallId
    THEN sameIdEvents(s, toolCallId, toolName)
    ELSE otherIdEvents(s, toolCallId, toolName, argsJson),
    Event("tool-input-end", toolCallId, JUndefined, "")),
    Event("tool-call", toolCallId, toolName, argsJson))

\* what follows the events of the selected call: the core model keeps the
\* text after the fence and leaves the read loop (the reader is cancelled);
\* the transformers-js model emits it and goes on
afterCall(variant, s, r, call) ==
  IF variant = "core"
  THEN [s EXCEPT !.toolCalls = <<call>>, !.toolBlockDetected = TRUE,
                 !.trailingTextAfterBlock = @ \o r.textAfterFence,
                 !.pc = "end"]
  ELSE resetCall([emitTextDelta(s, r.textAfterFence)
                    EXCEPT !.toolCallDetected = TRUE])

\* the completed fence yielded the tool call call, emitted under toolCallId
callStep(variant, s, r, call, toolCallId) ==
  afterCall(variant,
            callEvents(s, toolCallId, call.toolName,
                       JSON_stringify(argsOrEmpty(call.args))),
            r, [call EXCEPT !.toolCallId = toolCallId])

\* parsedStep with the selected call emitted under the id the parser gave
parsedStep_parserId(variant, s, r, parsed) ==
  IF Len(parsed.toolCalls) = 0 THEN noCallStep(variant, s, r)
  ELSE callStep(variant, s, r, parsed.toolCalls[1],
                parsed.toolCalls[1].toolCallId)

\* the iteration that completes a fence: parsed is parseJsonFunctionCalls
\* of the completeFence
parsedStep(variant, s, r, parsed) ==
  IF Len(parsed.toolCalls) = 0 THEN noCallStep(variant, s, r)
  ELSE callStep(variant, s, r, parsed.toolCalls[1],
                IF Truthy(s.currentToolCallId) THEN s.currentToolCallId
                ELSE parsed.toolCalls[1].toolCallId)

completeStep(variant, s, r) ==
  parsedStep(variant,
             streamIfStarted(IF r.safeContent # ""
                             THEN accumulateFence(s, r.safeContent) ELSE s),
             r, parseJsonFunctionCalls(r.completeFence, DEFAULT_OPTIONS))

\* the iteration outside a fence: without progress the loop is left
textStep(s, r) ==
  IF r.safeContent # "" THEN emitTextDelta(s, r.safeContent)
  ELSE [s EXCEPT !.pc = "read"]

\* one iteration of while (fenceDetector.hasContent()): r is the result
\* of detectStreamingFence
loopBody(variant, s, r) ==
  IF ~s.insideFence /\ r.inFence THEN enterStep(s, r)
  ELSE IF r.hasFence
  THEN completeStep(variant,
                    [s EXCEPT !.insideFence = r.inFence,
                              !.closedFences = s.closedFences + 1], r)
  ELSE IF r.inFence THEN insideStep([s EXCEPT !.insideFence = TRUE], r)
  ELSE textStep([s EXCEPT !.insideFence = FALSE], r)

\* the condition of the fence processing loop
loopCondition(variant, s, d) ==
  hasContent(d) /\ (variant = "tjs" => ~s.toolCallDetected)

\* the end of the core model's stream: what is left in the buffer is
\* emitted when no tool was detected
coreFlush(s, d) ==
  IF ~s.toolBlockDetected /\ hasContent(d) THEN emitTextDelta(s, d.buffer) ELSE s
coreFinish(s) ==
  IF ~s.toolBlockDetected \/ Len(s.toolCalls) = 0 THEN finishStream(s, "stop")
  ELSE finishStream(emitTextDelta(s, s.trailingTextAfterBlock), "tool-calls")

\* the end of the transformers-js model's stream
tjsFlush(s, d) == IF hasContent(d) THEN emitTextDelta(s, d.buffer) ELSE s
tjsTextEnd(s) ==
  IF s.textStarted THEN enqueue(s, Event("text-end", textId, JUndefined, "")) ELSE s
tjsFinish(s) ==
  [enqueue(tjsTextEnd(s),
           Event("finish", JUndefined, JUndefined,
                 IF Len(parseJsonFunctionCalls(s.accumulatedText,
                                               DEFAULT_OPTIONS).toolCalls) > 0
                 THEN "tool-calls" ELSE "stop"))
     EXCEPT !.pc = "closed"]

\* doGenerate: the content and the finish reason returned for the raw
\* response; toolCalls are those of the parser or, in the transformers-js
\* model, those the worker sent with its complete event
generateResult(rawResponse, toolCalls, textContent) ==
  IF Len(toolCalls) > 0
  THEN [content |->
          (IF textContent # ""
           THEN <<Event("text", JUndefined, JUndefined, textContent)>>
           ELSE << >>)
            \o <<Event("tool-call", toolCalls[1].toolCallId, toolCalls[1].toolName,
                       JSON_stringify(argsOrEmpty(toolCalls[1].args)))>>,
        finishReason |-> "tool-calls"]
  ELSE [content |->
          <<Event("text", JUndefined, JUndefined,
                  IF textContent # "" THEN textContent ELSE rawResponse)>>,
        finishReason |-> "stop"]

doGenerate(variant, rawResponse, workerToolCalls, parsed) ==
  generateResult(rawResponse,
                 IF variant = "tjs" /\ Len(workerToolCalls) > 0
                 THEN workerToolCalls ELSE parsed.toolCalls,
                 parsed.textContent)

\* the characters one call of extractArgumentsContent reads: up to the end
\* of the match of the key from the start of the content, then the value
\* up to its closing bracket; the whole content where the key is not found
inspected(content, idx) ==
  IF idx = -1 THEN Len(content)
  ELSE ArgumentsKeyEnd(content, idx) + Len(contentFrom(content, idx))

\* the contents passed to extractArgumentsContent in one iteration of the
\* fence processing loop, s being the state before it and r the result
\* of detectStreamingFence
extractionCalls(s, r) ==
  IF ~s.insideFence /\ r.inFence THEN << >>
  ELSE IF r.hasFence
  THEN (IF s.toolInputStartEmitted /\ Truthy(s.currentToolCallId)
        THEN <<s.accumulatedFenceContent \o r.safeContent>> ELSE << >>)
         \o (IF Len(parseJsonFunctionCalls(r.completeFence,
                                           DEFAULT_OPTIONS).toolCalls) > 0
             THEN <<s.accumulatedFenceContent \o r.safeContent>> ELSE << >>)
  ELSE IF r.inFence /\ r.safeContent # ""
          /\ insideStep(s, r).toolInputStartEmitted
          /\ Truthy(s.currentToolCallId)
  THEN <<s.accumulatedFenceContent \o r.safeContent>>
  ELSE << >>

\* processed: the length of the longest content passed so far; reread:
\* the most characters among those already passed to an earlier call that
\* one call has read again
NoWork == [calls |-> 0, processed |-> 0, reread |-> 0]

RECURSIVE workOf(_, _, _)
workOf(w, contents, k) ==
  IF k > Len(contents) THEN w
  ELSE workOf([calls |-> w.calls + 1,
               processed |-> MaxOf(w.processed, Len(contents[k])),
               reread |->
                 MaxOf(w.reread,
                       inspected(contents[k],
                                 ARGUMENTS_FIELD_REGEX(contents[k], 0))
                         - (Len(contents[k])
                              - MinOf(w.processed, Len(contents[k]))))],
              contents, k + 1)

\* the work after one iteration: a fence entered starts the count anew
workAfter(w, s, r) ==
  IF ~s.insideFence /\ r.inFence THEN NoWork
  ELSE workOf(w, extractionCalls(s, r), 1)

\* no doGenerate call has returned
NotGenerated == [content |-> << >>, finishReason |-> "none"]

(* ------------------------------------------------------------------ *)
(* One detector driven over an input that arrives in chunks            *)
(* ------------------------------------------------------------------ *)

VARIABLES
  text,      \* the whole text the generation source will deliver
  fed,       \* how many characters of text have been passed to addChunk
  chunking,  \* "char": one character per addChunk; "any": any split
  det,       \* the ToolCallFenceDetector instance
  result,    \* the StreamingFenceResult of the last detectStreamingFence
  emitted,   \* what the caller has received, in order: safeContent returned
             \* outside a fence, completeFence bodies, the flushed remainder
  fences,    \* the completeFence bodies returned so far, in order
  entries,   \* the offsets in text at which a fence was entered
  ledger,    \* where each consumed character went, in order
  lastOp,    \* what the last operation did: "init", "add", "flush", or for
             \* detectStreamingFence "text", "enter", "body", "close"
  drained,   \* every addChunk so far was made with no progress possible
  done       \* the stream has ended and the buffer has been flushed

VARIABLES
  content,   \* the whole fence content that will be accumulated
  shown,     \* the length of the prefix of content passed to the last call
  argState,  \* the caller's ArgumentsStreamState
  deltas,    \* the concatenation of the deltas returned so far
  lastDelta, \* the delta the last call returned
  argOp      \* the last call: "none", "call", "completing" (it set complete)
             \* or "after" (made with complete already set)

VARIABLES
  response,    \* the text passed to parseJsonFunctionCalls
  pphase,      \* "none", "call", "loop" or "returned"
  matches,     \* Array.from(response.matchAll(regex))
  matchIdx,    \* the index of the next match of the loop
  toolCalls,   \* the tool calls pushed so far
  textContent  \* the response less the matches removed so far

VARIABLES
  variant,  \* which language model runs: "core" or "tjs" (transformers-js)
  cuts,     \* the offsets of the model output at which its chunks end
  stream,   \* the state of the doStream run
  generated, \* what doGenerate returned for the same model output
  work,     \* the argument extraction of the current fence: its calls, the
            \* length of the content processed, the most one call read again
  stalls    \* the iterations of the fence processing loop, since the last
            \* read, that left the buffer as it was and stayed in the loop

VARIABLES
  iso  \* two detectors and two ArgumentsStreamState values used in turn,
       \* with the lastIndex of the module's ARGUMENTS_FIELD_REGEX

VARIABLES
  sm,  \* a SessionManager, the LanguageModel global and sessions it made,
       \* and the getSession calls made on it
  wk,  \* a TransformersJSWorkerHandler and the generation it runs
  ab,  \* the abort signal passed to a doStream run of the core model, and
       \* where the run's start function is suspended
  fn,  \* one call of a function of the detector: its arguments and, once
       \* it has returned, its result
  gs   \* a generator of createWorkerGenerationStream, the messages of its
       \* worker and the consumer that pulls from it

inputVars == <<text, fed>>
detGhost ==
  <<chunking, result, emitted, fences, entries, ledger, lastOp, drained, done>>
detVars == <<inputVars, det, detGhost>>
argVars == <<content, shown, argState, deltas, lastDelta, argOp>>
parseVars == <<response, pphase, matches, matchIdx, toolCalls, textContent>>
streamVars == <<variant, cuts, stream, stalls, generated, work>>
isoVars == <<iso>>
hostVars == <<sm, wk, ab, fn, gs>>
vars == <<detVars, argVars, parseVars, streamVars, isoVars, hostVars>>
restDetect == <<argVars, parseVars, streamVars, isoVars, hostVars>>
restArgs == <<detVars, parseVars, streamVars, isoVars, hostVars>>
restParse == <<detVars, argVars, streamVars, isoVars, hostVars>>
restStream == <<detGhost, argVars, parseVars, isoVars, hostVars>>
restIso == <<detVars, argVars, parseVars, streamVars, hostVars>>
restSession == <<detVars, argVars, parseVars, streamVars, isoVars, wk, ab, fn, gs>>
restWorker == <<detVars, argVars, parseVars, streamVars, isoVars, sm, ab, fn, gs>>
restAbort == <<detGhost, argVars, parseVars, isoVars, sm, wk, fn, gs>>
restCall == <<detVars, argVars, parseVars, streamVars, isoVars, sm, wk, ab, gs>>
restGen == <<detVars, argVars, parseVars, streamVars, isoVars, sm, wk, ab, fn>>

IdleDetect ==
  /\ chunking = "none"
  /\ result = [inFence |-> FALSE, safeContent |-> "", hasFence |-> FALSE,
               completeFence |-> "", textAfterFence |-> ""]
  /\ emitted = ""
  /\ fences = << >>
  /\ entries = << >>
  /\ ledger = << >>
  /\ lastOp = "none"
  /\ drained = TRUE
  /\ done = FALSE

IdleInput ==
  /\ text = ""
  /\ fed = 0
  /\ det = NewDetector(EXTENDED_FENCE_PATTERNS, TRUE)

IdleParse ==
  /\ response = ""
  /\ pphase = "none"
  /\ matches = << >>
  /\ matchIdx = 0
  /\ toolCalls = << >>
  /\ textContent = ""

IdleStream ==
  /\ variant = "none"
  /\ cuts = {}
  /\ stream = [pc |-> "none"]
  /\ stalls = 0
  /\ generated = NotGenerated
  /\ work = NoWork

IdleIso == iso = [pc |-> "none"]

IdleHost ==
  /\ sm = [pc |-> "none"]
  /\ wk = [pc |-> "none"]
  /\ ab = [pc |-> "none"]
  /\ fn = [pc |-> "none"]
  /\ gs = [pc |-> "none"]

IdleArgs ==
  /\ content = ""
  /\ shown = 0
  /\ argState = createArgumentsStreamState
  /\ deltas = ""
  /\ lastDelta = ""
  /\ argOp = "none"

NoResult == Result(FALSE, "", "", "")

\* no progress is possible: another call leaves the detector as it is
Quiescent(d) == detectStreamingFence(d).d = d

\* append s to the ledger under kind k, merging with a last entry of kind k
Post(l, k, s) ==
  IF s = "" THEN l
  ELSE IF l # << >> /\ l[Len(l)].k = k /\ k \in {"safe", "body"}
  THEN [l EXCEPT ![Len(l)].s = l[Len(l)].s \o s]
  ELSE Append(l, [k |-> k, s |-> s])

\* which branch of detectStreamingFence the call on d that gave step took
StepKind(d, step) ==
  IF ~d.inFence
  THEN IF step.d.inFence THEN "enter" ELSE "text"
  ELSE IF step.r.hasFence THEN "close" ELSE "body"

\* The caller's view of one detectStreamingFence call on detector d, whose
\* buffer starts at offset base of the text and which gave step: o is the
\* record of what has been observed so far.
Observe(o, d, base, step) ==
  IF ~d.inFence /\ step.r.inFence
  THEN [emitted |-> o.emitted \o step.r.safeContent,
        fences |-> o.fences,
        entries |-> Append(o.entries, base + Len(step.r.safeContent)),
        ledger |-> Post(Post(o.ledger, "safe", step.r.safeContent), "start",
                        Slice(d.buffer, Len(step.r.safeContent),
                              Len(d.buffer) - Len(step.d.buffer)))]
  ELSE IF step.r.hasFence
  THEN [emitted |-> o.emitted \o step.r.completeFence,
        fences |-> Append(o.fences, step.r.completeFence),
        entries |-> o.entries,
        ledger |-> Post(Post(o.ledger, "body", step.r.safeContent), "end",
                        d.currentFencePattern.end)]
  ELSE IF d.inFence
  THEN [o EXCEPT !.ledger = Post(o.ledger, "body", step.r.safeContent)]
  ELSE [o EXCEPT !.emitted = o.emitted \o step.r.safeContent,
                 !.ledger = Post(o.ledger, "safe", step.r.safeContent)]

Obs == [emitted |-> emitted, fences |-> fences, entries |-> entries,
        ledger |-> ledger]

NoObs == [emitted |-> "", fences |-> << >>, entries |-> << >>,
          ledger |-> << >>]

(* The texts the detector is driven over: an optional lead, a start     *)
(* marker (or a near miss), a short body, an end marker (or part of     *)
(* one), an optional tail.                                              *)
Leads == {"", "a"}
Opens == {"", "^^^tool_call\n", "^^^tool-call", "^^^tool_cal", "<tool_call>", "[f("}
Bodies == {"x"}
Closes == {"", "^^^", "^^", "</tool_call>", ")]"}
Tails == {"", "b"}

DetectTexts ==
  {l \o o \o b \o c \o t :
     l \in Leads, o \in Opens, b \in Bodies, c \in Closes, t \in Tails}

\* the longest chunk one addChunk passes
MaxChunk == 4

InitDetect ==
  /\ chunking = "any"
  /\ text \in DetectTexts
  /\ fed = 0
  /\ det = NewDetector(EXTENDED_FENCE_PATTERNS, TRUE)
  /\ result = NoResult
  /\ emitted = ""
  /\ fences = << >>
  /\ entries = << >>
  /\ ledger = << >>
  /\ lastOp = "init"
  /\ drained = TRUE
  /\ done = FALSE
  /\ IdleArgs
  /\ IdleParse
  /\ IdleStream
  /\ IdleIso
  /\ IdleHost

\* the generation source delivers the next n characters: addChunk
AddChunk ==
  /\ ~done
  /\ \E n \in 1..MinOf(MaxChunk, Len(text) - fed) :
       /\ chunking = "any" \/ (n = 1 /\ Quiescent(det))
       /\ det' = addChunk(det, Slice(text, fed, fed + n))
       /\ fed' = fed + n
  /\ lastOp' = "add"
  /\ drained' = (drained /\ Quiescent(det))
  /\ UNCHANGED <<text, chunking, result, emitted, fences, entries, ledger, done>>
  /\ UNCHANGED restDetect

\* one call of detectStreamingFence
DetectStep ==
  /\ ~done
  /\ \E step \in {detectStreamingFence(det)} :
       /\ det' = step.d
       /\ result' = step.r
       /\ lastOp' = StepKind(det, step)
       /\ \E o \in {Observe(Obs, det, fed - Len(det.buffer), step)} :
            /\ emitted' = o.emitted
            /\ fences' = o.fences
            /\ entries' = o.entries
            /\ ledger' = o.ledger
  /\ UNCHANGED <<text, fed, chunking, drained, done>>
  /\ UNCHANGED restDetect

\* the source is exhausted and no progress is possible: the caller takes
\* what is left with getBuffer and clearBuffer
Flush ==
  /\ ~done
  /\ fed = Len(text)
  /\ Quiescent(det)
  /\ emitted' = emitted \o det.buffer
  /\ ledger' = Post(ledger, "flush", det.buffer)
  /\ det' = clearBuffer(det)
  /\ lastOp' = "flush"
  /\ done' = TRUE
  /\ UNCHANGED <<text, fed, chunking, result, fences, entries, drained>>
  /\ UNCHANGED restDetect

NextDetect == AddChunk \/ DetectStep \/ Flush

SpecDetect == InitDetect /\ [][NextDetect]_vars

(* ------------------------------------------------------------------ *)
(* extractArgumentsDelta called on a growing fence content             *)
(* ------------------------------------------------------------------ *)

ArgContents ==
  { "{\"name\":\"a\",\"arguments\":{\"k\":\"v\"}}",
    "{\"name\":\"a\", \"arguments\" : {\"k\":[1,\"]}\"]}}\n",
    "{\"arguments\":{\"s\":\"a\\\"}\",\"t\":{}},\"name\":\"a\"}",
    "{\"name\":\"get_weather_forecast_daily\",\"arguments\":[{}]}",
    "{\"name\":\"a\",\"arguments\":\"x\"}",
    "{\"name\":\"a\"}" }

\* the most characters by which the content grows between two calls
MaxGrow == 4

InitArgs ==
  /\ content \in ArgContents
  /\ shown = 0
  /\ argState = createArgumentsStreamState
  /\ deltas = ""
  /\ lastDelta = ""
  /\ argOp = "none"
  /\ IdleInput
  /\ IdleDetect
  /\ IdleParse
  /\ IdleStream
  /\ IdleIso
  /\ IdleHost

\* what a call that returned out from state st was
ArgOpOf(st, out) ==
  IF st.complete THEN "after"
  ELSE IF out.state.complete THEN "completing" ELSE "call"

\* the content has grown by n characters and the caller passes it
ExtractGrown ==
  /\ \E n \in 0..MinOf(MaxGrow, Len(content) - shown) :
       /\ shown' = shown + n
       /\ \E out \in {extractArgumentsDelta(Slice(content, 0, shown + n), argState)} :
            /\ argState' = out.state
            /\ lastDelta' = out.delta
            /\ deltas' = deltas \o out.delta
            /\ argOp' = ArgOpOf(argState, out)
  /\ UNCHANGED <<content, restArgs>>

\* a call made with some other content once the value is complete
ExtractOther ==
  /\ argState.complete
  /\ \E m \in 0..Len(content) :
       /\ shown' = m
       /\ \E out \in {extractArgumentsDelta(Slice(content, 0, m), argState)} :
            /\ argState' = out.state
            /\ lastDelta' = out.delta
            /\ deltas' = deltas \o out.delta
            /\ argOp' = ArgOpOf(argState, out)
  /\ UNCHANGED <<content, restArgs>>

NextArgs == ExtractGrown \/ ExtractOther

SpecArgs == InitArgs /\ [][NextArgs]_vars

(* ------------------------------------------------------------------ *)
(* parseJsonFunctionCalls applied to a response, match by match        *)
(* ------------------------------------------------------------------ *)

\* fence contents: calls with and without arguments, without a name, not
\* JSON, arrays, lines, arguments as a string
ParseBodies ==
  { "{\"name\":\"a\",\"arguments\":{\"k\":1}}",
    "{\"name\":\"a\",\"id\":\"i1\",\"arguments\":0,\"parameters\":[1]}",
    "{\"arguments\":{\"k\":1}}",
    "{\"name\":\"\",\"arguments\":{}}",
    "{\"name\":\"a\",",
    "[{\"name\":\"a\"},{\"name\":\"b\",\"parameters\":{\"p\":\"q\"}}]",
    "[{\"k\":1},{\"name\":\"b\"}]",
    "[null,{\"name\":\"b\"}]",
    "{\"name\":\"a\"}\n{bad}\n\n{\"name\":\"b\"}",
    "{\"name\":\"a\",\"arguments\":\"{\\\"k\\\":1}\"}",
    "{\"name\":\"a\",\"arguments\":\"x\"}",
    "null",
    "[\n{\"name\":\"a\"}\n,{\"name\":\"b\"},null]",
    "" }

ParseFences ==
  {"^^^tool_call\n" \o b \o "\n^^^" : b \in ParseBodies}
    \cup {"^^^ToolCall " \o b \o "^^^" : b \in ParseBodies}
    \cup {"<tool_call>" \o b \o "</tool_call>" : b \in ParseBodies}
    \cup {"[f(a=\"1\", b = 2,c)]", "[f()]", "[f(a=1", "[f(q=\"a,b\",r='c')]"}

ParseResponses ==
  {l \o f \o t : l \in {"", "hi\n\n"}, f \in ParseFences, t \in {"", "\n\n\nbye "}}
    \cup {"^^^tool_call\n{bad\n^^^" \o f : f \in ParseFences}
    \cup {"^^^tool_call\n{\"name\":\"b\"}\n^^^ [a(x=1)] <tool_call>{\"name\":\"c\"}</tool_call>"}
    \cup {"[f[g()]()]X[f()]Y"}
    \cup {"plain text ", "", " no call:\n\n\n[f(] ^^^json\n{}\n^^^\n"}

InitParse ==
  /\ response \in ParseResponses
  /\ pphase = "call"
  /\ matches = << >>
  /\ matchIdx = 0
  /\ toolCalls = << >>
  /\ textContent = ""
  /\ IdleInput
  /\ IdleDetect
  /\ IdleArgs
  /\ IdleStream
  /\ IdleIso
  /\ IdleHost

\* ParseEnter without the return for no matches
ParseEnter_loop ==
  /\ pphase = "call"
  /\ matches' = matchAll(DEFAULT_OPTIONS, response, ignoreCase(response), 0)
  /\ pphase' = "loop"
  /\ matchIdx' = 1
  /\ toolCalls' = << >>
  /\ textContent' = response
  /\ UNCHANGED <<response, restParse>>

\* the function is entered: the matches are collected; with none it
\* returns the response as it is
ParseEnter ==
  /\ pphase = "call"
  /\ \E ms \in {matchAll(DEFAULT_OPTIONS, response, ignoreCase(response), 0)} :
       /\ matches' = ms
       /\ pphase' = IF ms = << >> THEN "returned" ELSE "loop"
  /\ matchIdx' = 1
  /\ toolCalls' = << >>
  /\ textContent' = response
  /\ UNCHANGED <<response, restParse>>

\* one iteration of the loop over the matches
ParseMatch ==
  /\ pphase = "loop"
  /\ matchIdx <= Len(matches)
  /\ \E st \in {matchStep([toolCalls |-> toolCalls, textContent |-> textContent],
                          matches[matchIdx], DEFAULT_OPTIONS)} :
       /\ toolCalls' = st.toolCalls
       /\ textContent' = st.textContent
  /\ matchIdx' = matchIdx + 1
  /\ UNCHANGED <<response, pphase, matches, restParse>>

\* the return after the loop
ParseReturn ==
  /\ pphase = "loop"
  /\ matchIdx > Len(matches)
  /\ textContent' = trim(collapseNewlines(textContent))
  /\ pphase' = "returned"
  /\ UNCHANGED <<response, matches, matchIdx, toolCalls, restParse>>

NextParse == ParseEnter \/ ParseMatch \/ ParseReturn

SpecParse == InitParse /\ [][NextParse]_vars

(* ------------------------------------------------------------------ *)
(* A message with one tool call passed to the detector by character    *)
(* ------------------------------------------------------------------ *)

OneCallMessages ==
  { "hi ^^^tool_call\n{\"name\":\"a\",\"arguments\":{\"k\":1}}\n^^^ ok",
    "^^^tool-call{\"name\":\"a\",\"arguments\":{\"k\":[1]}}^^^\n\nok",
    "^^^toolcall\n{\"name\":\"a\",\"arguments\":{}}\n^^^",
    "hi\n<tool_call>\n{\"name\":\"a\",\"parameters\":{\"k\":1}}\n</tool_call>",
    "[search(query=\"hello\")]" }

InitChar ==
  /\ chunking = "char"
  /\ text \in OneCallMessages
  /\ fed = 0
  /\ det = NewDetector(EXTENDED_FENCE_PATTERNS, TRUE)
  /\ result = NoResult
  /\ emitted = ""
  /\ fences = << >>
  /\ entries = << >>
  /\ ledger = << >>
  /\ lastOp = "init"
  /\ drained = TRUE
  /\ done = FALSE
  /\ IdleArgs
  /\ IdleParse
  /\ IdleStream
  /\ IdleIso
  /\ IdleHost

SpecChar == InitChar /\ [][NextDetect]_vars

(* ------------------------------------------------------------------ *)
(* One doStream run over a model output that arrives in chunks         *)
(* ------------------------------------------------------------------ *)

StreamTexts ==
  { "hi ^^^tool_call\n{\"name\":\"f\",\"arguments\":{\"k\":1}}\n^^^ ok",
    "<tool_call>{\"name\":\"f\"}</tool_call>",
    "^^^tool_call\n{\"name\":\"f\",\"arg",
    "see [f(x",
    "[f(a=1)] b",
    "^^^tool-call\n{bad}\n^^^tail",
    "plain ^^ text <to",
    "^^^tool_call\n[{\"name\":\"f\",\"id\":\"i1\",\"arguments\":{\"k\":1}},{\"name\":\"g\"}]\n^^^",
    "[f(a=1)] [g()]",
    "^^^tool_call\n{\"name\":\"f\",}\n^^^",
    "^^^tool_call\n{}\n^^^<tool_call>{\"name\":\"g\"}</tool_call>" }

\* the most characters between the first and the second cut of an output
MaxGap == 3

\* the most iterations without progress that the model follows
MaxStall == 2

InitStream ==
  /\ variant \in {"core", "tjs"}
  /\ text \in StreamTexts
  /\ \E c1 \in 1..Len(text) :
       \E c2 \in c1..MinOf(Len(text), c1 + MaxGap) : cuts = {c1, c2, Len(text)}
  /\ fed = 0
  /\ det = NewDetector(EXTENDED_FENCE_PATTERNS, TRUE)
  /\ stream = NewStream
  /\ stalls = 0
  /\ generated = NotGenerated
  /\ work = NoWork
  /\ IdleDetect
  /\ IdleArgs
  /\ IdleParse
  /\ IdleIso
  /\ IdleHost

\* a read resolves with the next chunk, which is added to the detector
Read ==
  /\ stream.pc = "read"
  /\ fed < Len(text)
  /\ \E to \in {Min({c \in cuts : c > fed})} :
       /\ det' = addChunk(det, Slice(text, fed, to))
       /\ stream' = [stream EXCEPT !.pc = "loop",
                       !.accumulatedText =
                         IF variant = "tjs" THEN @ \o Slice(text, fed, to) ELSE @]
       /\ fed' = to
  /\ stalls' = 0
  /\ UNCHANGED <<text, variant, cuts, generated, work, restStream>>

\* one iteration of the fence processing loop
LoopIteration ==
  /\ stream.pc = "loop"
  /\ loopCondition(variant, stream, det)
  /\ stalls < MaxStall
  /\ \E step \in {detectStreamingFence(det)} :
       /\ det' = step.d
       /\ \E s \in {loopBody(variant, stream, step.r)} :
            /\ stream' = s
            /\ stalls' = IF s.pc = "loop" /\ Len(step.d.buffer) = Len(det.buffer)
                         THEN stalls + 1 ELSE stalls
       /\ work' = workAfter(work, stream, step.r)
  /\ UNCHANGED <<text, fed, variant, cuts, generated, restStream>>

\* the condition of the fence processing loop is false
LoopExit ==
  /\ stream.pc = "loop"
  /\ ~loopCondition(variant, stream, det)
  /\ stream' = [stream EXCEPT !.pc = "read"]
  /\ UNCHANGED <<text, fed, det, variant, cuts, stalls, generated, work, restStream>>

\* the source is done, or the reader was cancelled after a tool call: what
\* is left is flushed and the stream is finished
EndOfStream ==
  /\ \/ stream.pc = "read" /\ fed = Len(text)
     \/ stream.pc = "end"
  /\ IF variant = "core"
     THEN /\ stream' = coreFinish(coreFlush(stream, det))
          /\ det' = IF ~stream.toolBlockDetected THEN clearBuffer(det) ELSE det
     ELSE /\ stream' = tjsFinish(tjsFlush(stream, det))
          /\ det' = clearBuffer(det)
  /\ UNCHANGED <<text, fed, variant, cuts, stalls, generated, work, restStream>>

\* doGenerate on the same model output, once the stream is closed; the
\* worker of the transformers-js model sends the tool calls it parsed from
\* the output, or none
Generate ==
  /\ stream.pc = "closed"
  /\ generated = NotGenerated
  /\ \E parsed \in {parseJsonFunctionCalls(text, DEFAULT_OPTIONS)} :
       \E workerToolCalls \in
           {<< >>} \cup (IF variant = "tjs" THEN {parsed.toolCalls} ELSE {}) :
         generated' = doGenerate(variant, text, workerToolCalls, parsed)
  /\ UNCHANGED <<text, fed, det, variant, cuts, stream, stalls, work, restStream>>

NextStream == Read \/ LoopIteration \/ LoopExit \/ EndOfStream \/ Generate

SpecStream == InitStream /\ [][NextStream]_vars

(* ------------------------------------------------------------------ *)
(* Two detectors and two ArgumentsStreamState values used in turn      *)
(* ------------------------------------------------------------------ *)

\* one stream's instances: its detector, its ArgumentsStreamState, and
\* what their calls have returned, in order
NewInstance ==
  [det |-> NewDetector(EXTENDED_FENCE_PATTERNS, TRUE),
   st |-> createArgumentsStreamState, out |-> << >>]

instAddChunk(inst, chunk) == [inst EXCEPT !.det = addChunk(@, chunk)]

instDetect(inst, step) ==
  [inst EXCEPT !.det = step.d, !.out = Append(@, step.r)]

instExtract(inst, res) ==
  [inst EXCEPT !.st = res.state, !.out = Append(@, res.delta)]

IsoChunks == {"hi ^^^tool_call\n{", "}\n^^^ [f(x)] <to"}

IsoContents ==
  { "{\"name\":\"a\",\"arguments\":{\"k\":1}}",
    "{\"arguments\":[1",
    "{\"name\":\"get_weather_forecast_daily\",\"arg" }

\* the most operations on the two streams together
MaxIsoOps == 4

\* pair: the two streams' instances used in turn, lastIndex being that of
\* the one ARGUMENTS_FIELD_REGEX; solo: each stream's instances given the
\* same calls alone, with a regular expression to itself; last: the stream
\* of the last call; turns: how often the stream changed
InitIso ==
  /\ iso = [pc |-> "run", lastIndex |-> 0,
            pair |-> <<NewInstance, NewInstance>>,
            solo |-> <<NewInstance, NewInstance>>,
            soloIndex |-> <<0, 0>>,
            ops |-> 0, last |-> 0, turns |-> 0]
  /\ IdleHost
  /\ IdleInput
  /\ IdleDetect
  /\ IdleArgs
  /\ IdleParse
  /\ IdleStream

\* the bookkeeping of a call on stream i
called(r, i) ==
  [r EXCEPT !.ops = r.ops + 1, !.last = i,
            !.turns = IF r.last \notin {0, i} THEN r.turns + 1 ELSE r.turns]

IsoAddChunk(i) ==
  /\ iso.pc = "run"
  /\ iso.ops < MaxIsoOps
  /\ \E chunk \in IsoChunks :
       iso' = called([iso EXCEPT !.pair[i] = instAddChunk(@, chunk),
                                 !.solo[i] = instAddChunk(@, chunk)], i)
  /\ UNCHANGED restIso

IsoDetect(i) ==
  /\ iso.pc = "run"
  /\ iso.ops < MaxIsoOps
  /\ hasContent(iso.pair[i].det)
  /\ iso' = called([iso EXCEPT
                      !.pair[i] = instDetect(@, detectStreamingFence(@.det)),
                      !.solo[i] = instDetect(@, detectStreamingFence(@.det))], i)
  /\ UNCHANGED restIso

IsoExtract(i) ==
  /\ iso.pc = "run"
  /\ iso.ops < MaxIsoOps
  /\ \E c \in IsoContents :
       \E p \in {extractArgumentsDeltaAt(c, iso.pair[i].st, iso.lastIndex)} :
         \E q \in {extractArgumentsDeltaAt(c, iso.solo[i].st, iso.soloIndex[i])} :
           iso' = called([iso EXCEPT !.pair[i] = instExtract(@, p),
                                     !.lastIndex = p.lastIndex,
                                     !.solo[i] = instExtract(@, q),
                                     !.soloIndex[i] = q.lastIndex], i)
  /\ UNCHANGED restIso

NextIso == \E i \in 1..2 : IsoAddChunk(i) \/ IsoDetect(i) \/ IsoExtract(i)

SpecIso == InitIso /\ [][NextIso]_vars

(* ------------------------------------------------------------------ *)
(* The same text passed to a fresh detector as a single chunk          *)
(* ------------------------------------------------------------------ *)

RECURSIVE Drive(_, _, _)
RECURSIVE DriveOn(_, _, _, _)

\* detectStreamingFence called until no progress is possible, then the
\* buffer flushed: o is what has been observed, n the length of the text
Drive(o, d, n) ==
  IF Quiescent(d)
  THEN [emitted |-> o.emitted \o d.buffer, fences |-> o.fences,
        entries |-> o.entries]
  ELSE DriveOn(o, d, n, detectStreamingFence(d))

DriveOn(o, d, n, step) == Drive(Observe(o, d, n - Len(d.buffer), step), step.d, n)

OneChunk(t) ==
  Drive(NoObs, addChunk(NewDetector(EXTENDED_FENCE_PATTERNS, TRUE), t), Len(t))

(* ------------------------------------------------------------------ *)
(* Claims about the detector                                           *)
(* ------------------------------------------------------------------ *)

\* C2: for any split of a text into chunks, each drained before the next is
\* added, the in-order concatenation of the safeContent returned outside a
\* fence, the completeFence bodies and the flushed remainder equals the
\* original text, as it does when the text is passed as one chunk.
C2_ChunkedOutputIsText ==
  (done /\ drained) => (emitted = text /\ emitted = OneChunk(text).emitted)

\* C6: for every enabled pattern and every split of a text, the detector
\* enters each fence at the offset at which it enters it when the text
\* arrives unsplit, so that no character of a start marker is emitted as
\* plain text.
C6_SplitStartRecognised == done => entries = OneChunk(text).entries

\* the concatenation of the ledger's entries
RECURSIVE Flat(_)
Flat(l) == IF l = << >> THEN "" ELSE l[1].s \o Flat(Tail(l))

\* m is a start marker of the default detector: a literal start, or a
\* match of the bracket-call pattern
IsStartMarker(m) ==
  \/ \E k \in 1..Len(EXTENDED_FENCE_PATTERNS) : EXTENDED_FENCE_PATTERNS[k].start = m
  \/ (pythonStyleRegex(m).index = 0 /\ pythonStyleRegex(m).match = m)

\* what a "start" entry of the ledger may hold: a start marker, and after a
\* ^^^ marker the newline that followed it in the buffer
StartEntryOK(m) ==
  \/ IsStartMarker(m)
  \/ /\ StartsWith(m, "^^^")
     /\ EndsWith(m, "\n")
     /\ IsStartMarker(Slice(m, 0, Len(m) - 1))

\* the index of the last "start" entry of the ledger, 0 for none
LastStart(l) == Max({0} \cup {i \in 1..Len(l) : l[i].k = "start"})

\* the body entries that follow entry i
BodyAfter(l, i) == Flat(SelectSeq(SubSeq(l, i + 1, Len(l)), LAMBDA e : e.k = "body"))

\* the fence is open: the ledger ends with its start marker and its body,
\* which is the accumulator
OpenFenceOK(l, i) ==
  /\ i > 0
  /\ \A j \in (i + 1)..Len(l) : l[j].k = "body"
  /\ BodyAfter(l, i) = det.fenceStartBuffer
  /\ StartsWith(l[i].s, det.currentFencePattern.start)

\* no fence is open: the ledger does not end inside one
ClosedFenceOK(l) ==
  /\ det.fenceStartBuffer = ""
  /\ l # << >> => l[Len(l)].k \in {"safe", "end", "flush"}

\* C5 as stated: every character appended so far is, in order, in the text
\* returned as safeContent outside a fence or in a completeFence already
\* returned, in the fence accumulator, or in the buffer.
C5_AccountedInThreePlaces ==
  ~done => Slice(text, 0, fed) = emitted \o det.fenceStartBuffer \o det.buffer

\* C5 amended: the buffer is the tail of the appended text that has not been
\* consumed, and the consumed part is, in order, the safeContent returned
\* outside fences and, for each fence entered, its start marker (with the
\* newline taken after a ^^^ marker), its body (the accumulator while the
\* fence is open) and, once closed, its end marker.
C5_Accounted ==
  /\ Slice(text, 0, fed) = Flat(ledger) \o det.buffer
  /\ \A i \in 1..Len(ledger) : ledger[i].k = "start" => StartEntryOK(ledger[i].s)
  /\ done \/ IF det.inFence THEN OpenFenceOK(ledger, LastStart(ledger))
             ELSE ClosedFenceOK(ledger)

\* C5 witness: inside a fence, after text was emitted before it, with a body
\* accumulated and an end marker partly received
C5_Witness ==
  /\ det.inFence /\ det.fenceStartBuffer # "" /\ det.buffer # ""
  /\ emitted # "" /\ lastOp = "body"

LongestStart == Max({Len(EXTENDED_FENCE_PATTERNS[k].start) : k \in 1..Len(EXTENDED_FENCE_PATTERNS)})

\* C9: computeOverlapLength is less than the length of the longest
\* candidate, on every prefix of the text and on the buffer; after a call
\* that found no start marker the buffer holds at most LongestStart - 1
\* characters, and after a call that found no end marker fewer characters
\* than the end marker has.
C9_OverlapBounded ==
  /\ lastOp = "init" =>
       \A i \in 0..Len(text) :
         /\ computeOverlapLength(Slice(text, 0, i), fenceStarts(det.fencePatterns))
              < LongestStart
         /\ computeOverlapLength(Slice(text, 0, i), <<"</tool_call>">>)
              < Len("</tool_call>")
  /\ lastOp = "text" => Len(det.buffer) <= LongestStart - 1
  /\ lastOp = "body" => Len(det.buffer) <= Len(fenceEndOf(det)) - 1

\* C9 witness: a call found no start marker and withheld LongestStart - 1
\* characters after emitting text
C9_Witness ==
  lastOp = "text" /\ Len(det.buffer) = LongestStart - 1 /\ result.safeContent # ""

(* ------------------------------------------------------------------ *)
(* Claims about extractArgumentsDelta                                  *)
(* ------------------------------------------------------------------ *)

\* C7: however the fence content is presented to extractArgumentsDelta as
\* growing prefixes with one state, once the whole content has been passed
\* the concatenation of the deltas returned equals the one-shot extraction
\* extractArgumentsContent on the whole content.
C7_DeltasEqualOneShot ==
  (argOp \in {"call", "completing"} /\ shown = Len(content))
    => deltas = extractArgumentsContent(content)

\* the closing brackets of a value
ClosingBrackets == {"}", "]"}

\* the delta d was read from content and ends at the character before e
EndsAt(d, e) ==
  /\ Len(d) > 0
  /\ e <= shown
  /\ Slice(content, e - Len(d), e) = d
  /\ CharAt(content, e - 1) \in ClosingBrackets

\* C8: the call of extractArgumentsDelta on which the bracket depth returns
\* to 0 sets complete and returns a delta whose last character is the
\* closing bracket, with nothing of the content after that bracket in it;
\* and a call made once complete is set returns the empty string and leaves
\* the state as it was, whatever content is passed.
C8_CompleteThenEmpty ==
  /\ [](argOp = "completing" =>
          /\ argState.complete
          /\ argState.depth = 0
          /\ EndsAt(lastDelta, argState.parseIndex)
          /\ deltas = Slice(content, argState.valueStartIndex,
                            argState.parseIndex))
  /\ [][argState.complete =>
          (lastDelta' = "" /\ argState' = argState /\ deltas' = deltas)]_vars

\* a call with a shorter content was made after the value was complete
C8_Witness ==
  /\ argOp = "after"
  /\ shown < argState.parseIndex
  /\ Len(deltas) > 1
  /\ argState.parseIndex < Len(content)

(* ------------------------------------------------------------------ *)
(* Claims about parseJsonFunctionCalls                                 *)
(* ------------------------------------------------------------------ *)

\* the values the non-blank lines of a fence content parse to
RECURSIVE lineValues(_, _)
lineValues(lines, k) ==
  IF k > Len(lines) THEN << >>
  ELSE (IF JSON_parse(trim(lines[k])).ok
        THEN <<JSON_parse(trim(lines[k])).v>> ELSE << >>)
         \o lineValues(lines, k + 1)

\* the candidates of a fence content: the elements of the array, or the
\* one value, that it parses to; what its lines parse to when it does not
\* parse as a whole
Candidates(trimmed) ==
  IF JSON_parse(trimmed).ok THEN callsArrayOf(JSON_parse(trimmed).v)
  ELSE lineValues(split(trimmed, "\n"), 1)

HasName(c) == Truthy(getProp(c, "name"))

\* the names of the candidates of match m that have one
NamesOfMatch(m) ==
  IF m.funcName # "" THEN <<JStr(m.funcName)>>
  ELSE [k \in 1..Len(SelectSeq(Candidates(trim(m.inner)), HasName)) |->
          getProp(SelectSeq(Candidates(trim(m.inner)), HasName)[k], "name")]

RECURSIVE NamesOfMatches(_, _)
NamesOfMatches(ms, k) ==
  IF k > Len(ms) THEN << >> ELSE NamesOfMatch(ms[k]) \o NamesOfMatches(ms, k + 1)

\* C10: parseJsonFunctionCalls returns for every response, and what it
\* returns holds a tool call for each candidate that has a name and none
\* for any other: a fence whose content is not JSON and a candidate
\* without a name contribute nothing and do not keep the candidates and
\* fences after them from being processed.
C10_SkipsOnlyTheInvalid ==
  pphase = "returned" =>
    [k \in 1..Len(toolCalls) |-> toolCalls[k].toolName] = NamesOfMatches(matches, 1)

\* where the source text of the call named n starts in the response: the
\* name field of a JSON candidate, or the name of a bracket call
NameText(v) == IF v.t = "string" THEN v.s ELSE ""
FoundOr(i, d) == IF i = -1 THEN d ELSE i
NamePos(n) ==
  MinOf(FoundOr(IndexOf(response, "\"name\":\"" \o n \o "\""), Len(response)),
        FoundOr(IndexOf(response, "[" \o n \o "("), Len(response)))

\* C11: the tool calls returned by parseJsonFunctionCalls are in the order
\* of their source text: fences from left to right, the elements of a JSON
\* array in element order, the lines of a fence content in line order.
C11_SourceOrder ==
  pphase = "returned" =>
    \A k \in 1..(Len(toolCalls) - 1) :
      NamePos(NameText(toolCalls[k].toolName))
        <= NamePos(NameText(toolCalls[k + 1].toolName))

\* the text s without the spans of the matches ms[1..k]
RECURSIVE WithoutRegions(_, _, _)
WithoutRegions(s, ms, k) ==
  IF k = 0 THEN s
  ELSE WithoutRegions(Slice(s, 0, ms[k].index) \o SliceFrom(s, ms[k].end),
                      ms, k - 1)

\* C12: for every input the textContent returned by parseJsonFunctionCalls
\* is the input with the span of every match removed, then every run of
\* two or more newlines collapsed to one newline, then trimmed.
C12_TextWithoutFences ==
  pphase = "returned" =>
    textContent
      = trim(collapseNewlines(WithoutRegions(response, matches, Len(matches))))

\* the regular expression of the parser matches nowhere in s
NoMarker(s) ==
  \A i \in 0..Len(s) : buildRegex(DEFAULT_OPTIONS, s, ignoreCase(s), i).index = -1

\* C13: for an input without any recognised marker parseJsonFunctionCalls
\* returns no tool call and the whole input, unchanged, as textContent.
C13_PassThrough ==
  (pphase = "returned" /\ NoMarker(response)) =>
    (toolCalls = << >> /\ textContent = response)

\* an input without marker that trimming and collapsing would change
C13_Witness ==
  /\ pphase = "returned"
  /\ NoMarker(response)
  /\ response # ""
  /\ trim(collapseNewlines(response)) # response
  /\ textContent = response

\* one tool call for each candidate of a fence content that has a name
CallsOfCandidates(cs) ==
  [k \in 1..Len(SelectSeq(cs, HasName)) |->
     toolCallOf(SelectSeq(cs, HasName)[k], DEFAULT_OPTIONS)]

\* the tool calls of the matches from k on, each candidate counted once
RECURSIVE CallsOnce(_, _, _)
CallsOnce(ms, k, acc) ==
  IF k > Len(ms) THEN acc
  ELSE CallsOnce(ms, k + 1,
         IF ms[k].funcName # "" THEN matchCalls(ms[k], acc, DEFAULT_OPTIONS)
         ELSE acc \o CallsOfCandidates(Candidates(trim(ms[k].inner))))

\* C14: a fence content that parses as one JSON value gives one candidate
\* per element of the array, or the one object; only a content that does
\* not parse as one value is split into lines, each non-blank line parsed
\* on its own and skipped where it does not parse; no candidate is counted
\* twice.
C14_CandidatesOnce ==
  pphase = "returned" => toolCalls = CallsOnce(matches, 1, << >>)

\* a field of a candidate is present: it has a value other than null
Present(v) == v.t \notin {"undefined", "null"}

\* arguments where present, else parameters where present and the alias
\* is enabled, else {}
ArgsByPresence(call, options) ==
  IF Present(getProp(call, "arguments")) THEN getProp(call, "arguments")
  ELSE IF options.supportParametersField /\ Present(getProp(call, "parameters"))
  THEN getProp(call, "parameters")
  ELSE EmptyObject

\* every value a fence content or one of its lines gives as a candidate
AllCandidates(trimmed) ==
  {Candidates(trimmed)[k] : k \in 1..Len(Candidates(trimmed))}
    \cup {lineValues(split(trimmed, "\n"), 1)[k] :
            k \in 1..Len(lineValues(split(trimmed, "\n"), 1))}

\* the (toolName, args) the named candidates of the JSON matches give
NamedArgs(ms) ==
  UNION {{<<getProp(cand, "name"),
            resolveArgs(ArgsByPresence(cand, DEFAULT_OPTIONS))>> :
            cand \in {x \in AllCandidates(trim(ms[k].inner)) : HasName(x)}} :
         k \in {j \in 1..Len(ms) : ms[j].funcName = ""}}

\* the (toolName, args) of the bracket calls among the matches
BracketArgs(ms) ==
  {<<JStr(ms[k].funcName), pythonArgsOf(ms[k].pythonArgs)>> :
     k \in {j \in 1..Len(ms) : ms[j].funcName # ""}}

\* C15: the args of the tool call of a named candidate are its arguments
\* field whenever that is present, else its parameters field (the alias
\* being enabled), else {}; args that are a string are replaced by their
\* JSON value where they parse and kept as the string otherwise.
C15_ArgsByPresence ==
  pphase = "returned" =>
    \A k \in 1..Len(toolCalls) :
      <<toolCalls[k].toolName, toolCalls[k].args>>
        \in NamedArgs(matches) \cup BracketArgs(matches)

\* s split at its top-level commas: a comma between quotes does not
\* split; from is the start of the current part, q the open quote or ""
RECURSIVE TopLevelSplit(_, _, _, _)
TopLevelSplit(s, i, from, q) ==
  IF i >= Len(s) THEN <<SliceFrom(s, from)>>
  ELSE IF q = "" /\ CharAt(s, i) = ","
  THEN <<Slice(s, from, i)>> \o TopLevelSplit(s, i + 1, i + 1, "")
  ELSE IF q = "" /\ CharAt(s, i) \in {"\"", "'"}
  THEN TopLevelSplit(s, i + 1, from, CharAt(s, i))
  ELSE IF q # "" /\ CharAt(s, i) = q THEN TopLevelSplit(s, i + 1, from, "")
  ELSE TopLevelSplit(s, i + 1, from, q)

\* the args of a bracket call whose arguments are split at top level
TopLevelArgs(pythonArgs) ==
  IF trim(pythonArgs) # ""
  THEN pythonPairs(TopLevelSplit(pythonArgs, 0, 0, ""), 1, EmptyObject)
  ELSE EmptyObject

\* C16: the one tool call of a bracket call [name(args)] has the name, a
\* generated id, and as args one string per key=value pair of args split
\* at its top-level commas, the value without its surrounding quotes.
C16_TopLevelCommas ==
  pphase = "returned" =>
    \A j \in {i \in 1..Len(matches) : matches[i].funcName # ""} :
      \E k \in 1..Len(toolCalls) :
        toolCalls[k] = ToolCall(generateToolCallId, JStr(matches[j].funcName),
                                TopLevelArgs(matches[j].pythonArgs))

(* ------------------------------------------------------------------ *)
(* Claims about streaming against whole-string parsing                 *)
(* ------------------------------------------------------------------ *)

\* the tool calls parseJsonFunctionCalls finds in the fences from k on
RECURSIVE FenceCalls(_, _)
FenceCalls(fs, k) ==
  IF k > Len(fs) THEN << >>
  ELSE parseJsonFunctionCalls(fs[k], DEFAULT_OPTIONS).toolCalls \o FenceCalls(fs, k + 1)

\* the (toolName, args) of tool calls
NameAndArgs(calls) == [k \in 1..Len(calls) |-> <<calls[k].toolName, calls[k].args>>]

\* the text returned outside the fences and flushed at the end
OutsideText(l) == Flat(SelectSeq(l, LAMBDA e : e.k \in {"safe", "flush"}))

\* C1: for a message with one tool call passed one character per addChunk,
\* the completeFence values parsed by parseJsonFunctionCalls give the
\* (toolName, args) that parseJsonFunctionCalls gives on the whole message,
\* and the text emitted outside the fence is the whole-message textContent
\* up to the collapsing of newlines and trimming.
C1_StreamedEqualsWhole ==
  done =>
    /\ NameAndArgs(FenceCalls(fences, 1))
         = NameAndArgs(parseJsonFunctionCalls(text, DEFAULT_OPTIONS).toolCalls)
    /\ trim(collapseNewlines(OutsideText(ledger)))
         = trim(collapseNewlines(parseJsonFunctionCalls(text, DEFAULT_OPTIONS).textContent))

(* ------------------------------------------------------------------ *)
(* Claims about doStream                                               *)
(* ------------------------------------------------------------------ *)

\* C3: in doStream of both language models, every iteration of the fence
\* processing loop either consumes buffer content or leaves the loop, so
\* that the loop ends after finitely many iterations for every chunk and
\* every detector state: no iteration leaves the buffer as it was and
\* stays in the loop.
C3_EveryIterationProgresses == stalls = 0

\* the concatenation of the text-delta parts
RECURSIVE TextOf(_, _)
TextOf(events, k) ==
  IF k > Len(events) THEN ""
  ELSE (IF events[k].type = "text-delta" THEN events[k].data ELSE "")
         \o TextOf(events, k + 1)

HasEvent(events, type) == \E k \in 1..Len(events) : events[k].type = type

\* content is pending at the end of the output: the buffer holds text, or
\* a fence is open, and no fence was completed before
Pending ==
  /\ stream.pc \in {"read", "end"}
  /\ stream.closedFences = 0
  /\ det.inFence \/ hasContent(det)

\* s is a stream that finished normally with all of the output as text
FlushedAsText(s) ==
  /\ ~HasEvent(s.events, "error")
  /\ s.events[Len(s.events)].type = "finish"
  /\ s.events[Len(s.events)].data = "stop"
  /\ TextOf(s.events, 1) = text

\* C4: when the model output ends while content is pending, including
\* inside a fence that was opened and never closed, doStream enqueues no
\* error part, finishes with reason stop, and the text-delta parts hold all
\* of the output: for an unterminated fence its start marker, the body
\* accumulated and the buffered tail.
C4_PendingFlushedAsText ==
  [][(Pending /\ stream'.pc = "closed") => FlushedAsText(stream')]_vars

\* the parts of the stream that belong to the streaming of a tool input
ToolInputTypes == {"tool-input-start", "tool-input-delta", "tool-input-end"}

\* the ids allocated at the fence entries so far
FenceIds == {newToolCallId(n) : n \in 1..stream.ids}

\* the tool call at k of the parts ev was streamed under one id, in order:
\* one tool-input-start, then the tool-input-deltas, then tool-input-end
\* just before the tool-call
StreamedInOrder(ev, k) ==
  /\ k > 2
  /\ ev[k - 1].type = "tool-input-end"
  /\ ev[k - 1].id = ev[k].id
  /\ \E i \in 1..(k - 2) :
       /\ ev[i].type = "tool-input-start"
       /\ ev[i].id = ev[k].id
       /\ \A j \in (1..Len(ev)) \ {i, k - 1, k} :
            (ev[j].id = ev[k].id) =>
              (ev[j].type = "tool-input-delta" /\ i < j /\ j < k - 1)

\* C17: the tool-input-start, every tool-input-delta, the tool-input-end
\* and the tool-call of a streamed tool call carry the id allocated when
\* its fence was entered, never the id the parser gave, and come in that
\* order.
C17_OneIdInOrder ==
  \A k \in 1..Len(stream.events) :
    /\ (stream.events[k].type = "tool-call") =>
         /\ stream.events[k].id = newToolCallId(stream.ids)
         /\ StreamedInOrder(stream.events, k)
    /\ (stream.events[k].type \in ToolInputTypes) =>
         stream.events[k].id \in FenceIds

\* a tool call whose JSON carries an id of its own, streamed with two
\* tool-input-deltas
C17_Witness ==
  /\ IndexOf(text, "\"id\":\"i1\"") # -1
  /\ \E k \in 1..Len(stream.events) :
       /\ stream.events[k].type = "tool-call"
       /\ stream.events[k].id # JStr("i1")
       /\ Cardinality({j \in 1..k : stream.events[j].type = "tool-input-delta"}) >= 2

\* the tool-call parts among parts
ToolCallParts(parts) == {k \in 1..Len(parts) : parts[k].type = "tool-call"}

\* the one tool-call part of parts is the call first among calls
EmitsFirstOnly(parts, calls) ==
  /\ Cardinality(ToolCallParts(parts)) = 1
  /\ \A k \in ToolCallParts(parts) : parts[k].toolName = calls[1].toolName

\* the model output holds several tool calls: the parser returns them all
SeveralCalls == Len(parseJsonFunctionCalls(text, DEFAULT_OPTIONS).toolCalls) >= 2

\* C18: doGenerate and doStream emit at most one tool call per response;
\* for a model output with several calls, in one fence or in several, the
\* one emitted is the first in source order and the finish reason is
\* tool-calls.
C18_OnlyFirstCall ==
  /\ Cardinality(ToolCallParts(stream.events)) <= 1
  /\ Cardinality(ToolCallParts(generated.content)) <= 1
  /\ (stream.pc = "closed" /\ SeveralCalls) =>
       /\ EmitsFirstOnly(stream.events,
                         parseJsonFunctionCalls(text, DEFAULT_OPTIONS).toolCalls)
       /\ stream.events[Len(stream.events)].data = "tool-calls"
  /\ (generated # NotGenerated /\ SeveralCalls) =>
       /\ EmitsFirstOnly(generated.content,
                         parseJsonFunctionCalls(text, DEFAULT_OPTIONS).toolCalls)
       /\ generated.finishReason = "tool-calls"

\* C19: two detectors, and two ArgumentsStreamState values passed to
\* extractArgumentsDelta, share no state that changes: in any interleaving
\* of their calls each instance returns what it returns, and is left as it
\* is left, when it is given the same calls alone.
C19_Independent == iso.pc = "run" => iso.pair = iso.solo

\* the calls alternated between the streams, each stream's extraction
\* found its key, and a detector returned a result
C19_Witness ==
  /\ iso.pc = "run"
  /\ iso.turns >= 2
  /\ \A i \in 1..2 : iso.pair[i].st.valueStartIndex # -1
  /\ iso.pair[1].st.valueStartIndex # iso.pair[2].st.valueStartIndex

\* a detector of one stream entered a fence between the calls of the other
C19_DetectorWitness ==
  /\ iso.pc = "run"
  /\ iso.turns >= 2
  /\ iso.pair[1].det.inFence
  /\ ~iso.pair[2].det.inFence
  /\ iso.pair[2].out # << >>

\* C20: over a whole stream the argument extraction reads every character
\* of a fence content a bounded number of times, however many chunks it
\* came in, and never reads again from the start what it has processed:
\* of the content passed to earlier calls a call reads again at most the
\* ARGUMENTS_SEARCH_OVERLAP characters kept for a key split between chunks.
C20_LinearWork == work.reread <= ARGUMENTS_SEARCH_OVERLAP

(* ------------------------------------------------------------------ *)
(* SessionManager: getSession calls that overlap, destroySession       *)
(* ------------------------------------------------------------------ *)

\* an option that was not given
NoHandler == "undefined"

\* the handler getSession makes when none was given: it logs a warning
DefaultHandler == "console.warn"

\* a || b for two values that are each a function or undefined
orHandler(a, b) == IF a # NoHandler THEN a ELSE b

onOverflow(options, baseOptions) ==
  orHandler(options.onContextOverflow,
            orHandler(baseOptions.onContextOverflow,
                      orHandler(options.onQuotaOverflow,
                                baseOptions.onQuotaOverflow)))

\* onOverflow ?? (() => console.warn(...))
overflowHandler(options, baseOptions) ==
  IF onOverflow(options, baseOptions) # NoHandler
  THEN onOverflow(options, baseOptions)
  ELSE DefaultHandler

\* "oncontextoverflow" in session
overflowEvent(session) ==
  IF session.oncontextoverflow THEN "contextoverflow" ELSE "quotaoverflow"

addEventListener(session, type, listener) ==
  [session EXCEPT
     !.listeners = Append(@, [type |-> type, listener |-> listener])]

\* the object a LanguageModel.create call resolves with: whether it has a
\* destroy method and an oncontextoverflow property, the listeners added
\* to it, how often destroy() was called on it, the options of the
\* getSession call that made it
NewSessionObject(destroy, oncontextoverflow) ==
  [destroy |-> destroy, oncontextoverflow |-> oncontextoverflow,
   listeners |-> << >>, destroyed |-> 0, options |-> "none"]

NoOptions == [onContextOverflow |-> NoHandler, onQuotaOverflow |-> NoHandler]

\* session: the index in objects of this.session, 0 for null; LanguageModel:
\* whether the global is defined; build: the object of this browser's
\* LanguageModel.create; options: what the caller passes to getSession;
\* settled: the session the first getSession
\* resolved with since the last destroySession, 0 if none has; calls: the
\* getSession calls that await; started: the calls of the manager's
\* methods made so far; last: the
\* last operation that returned, for a getSession call the call itself
NewSessionManager(baseOptions, global, build, options) ==
  [pc |-> "run", LanguageModel |-> global, baseOptions |-> baseOptions,
   build |-> build, options |-> options,
   session |-> 0, objects |-> << >>, calls |-> << >>, started |-> 0,
   last |-> [op |-> "new"], settled |-> 0]

getCurrentSession(m) == m.session

\* a getSession call: pc is "availability" or "create" while it awaits that
\* call, then "resolved" or "rejected"; made: the session its
\* LanguageModel.create call makes, 0 if it made no such call; expected:
\* what settled was when the call was made; afterDestroy: the call is the
\* first operation after a destroySession
NewCall(m, options) ==
  [op |-> "getSession", options |-> options, pc |-> "start",
   availability |-> "none", made |-> 0, result |-> 0, error |-> "none",
   expected |-> m.settled, afterDestroy |-> m.last.op = "destroySession"]

withoutCall(calls, i) ==
  SubSeq(calls, 1, i - 1) \o SubSeq(calls, i + 1, Len(calls))

rejectCall(m, i, error) ==
  [m EXCEPT !.last = [m.calls[i] EXCEPT !.pc = "rejected", !.error = error],
            !.calls = withoutCall(@, i)]

resolveCall(m, i, session) ==
  [m EXCEPT !.last = [m.calls[i] EXCEPT !.pc = "resolved", !.result = session],
            !.calls = withoutCall(@, i),
            !.settled = IF @ = 0 THEN session ELSE @]

awaitAvailability(m, i) == [m EXCEPT !.calls[i].pc = "availability"]

\* getSession up to its first await
getSessionEnter(m, i) ==
  IF ~m.LanguageModel THEN rejectCall(m, i, "LoadSettingError")
  ELSE IF m.session # 0 THEN resolveCall(m, i, m.session)
  ELSE awaitAvailability(m, i)

\* LanguageModel.create(sessionOptions) is called and awaited
callCreate(m, i, object) ==
  [m EXCEPT !.objects = Append(@, [object EXCEPT !.options = m.calls[i].options]),
            !.calls[i].pc = "create",
            !.calls[i].made = Len(m.objects) + 1]

\* getSession from the result of LanguageModel.availability() to the await
\* of LanguageModel.create
afterAvailability_create(m, i, availability) ==
  callCreate([m EXCEPT !.calls[i].availability = availability], i, m.build)

afterAvailability(m, i, availability) ==
  IF availability = "unavailable"
  THEN rejectCall([m EXCEPT !.calls[i].availability = availability], i,
                  "LoadSettingError")
  ELSE callCreate([m EXCEPT !.calls[i].availability = availability], i,
                  m.build)

registerOverflow_quotaFirst(m, i) ==
  [m EXCEPT !.objects[m.session] =
     addEventListener(@, overflowEvent(@),
       overflowHandler([m.calls[i].options EXCEPT
                          !.onContextOverflow = m.calls[i].options.onQuotaOverflow,
                          !.onQuotaOverflow = m.calls[i].options.onContextOverflow],
                       [m.baseOptions EXCEPT
                          !.onContextOverflow = m.baseOptions.onQuotaOverflow,
                          !.onQuotaOverflow = m.baseOptions.onContextOverflow]))]

\* the listener is added to this.session
registerOverflow(m, i) ==
  [m EXCEPT !.objects[m.session] =
     addEventListener(@, overflowEvent(@),
                      overflowHandler(m.calls[i].options, m.baseOptions))]

\* getSession from the result of LanguageModel.create to its return
afterCreate(m, i) ==
  resolveCall(registerOverflow([m EXCEPT !.session = m.calls[i].made], i),
              i, m.calls[i].made)

getSession(m, options) ==
  getSessionEnter([m EXCEPT !.calls = Append(@, NewCall(m, options)),
                            !.started = @ + 1,
                            !.last = [op |-> "call"]],
                  Len(m.calls) + 1)

\* getSession({ onDownloadProgress })
createSessionWithProgress(m) == getSession(m, NoOptions)

checkAvailability(m, availability) ==
  [m EXCEPT !.started = @ + 1,
            !.last = [op |-> "checkAvailability",
                                result |-> IF ~m.LanguageModel THEN "unavailable"
                                           ELSE availability]]

\* object.destroy(): a TypeError when object is null or has no such method
invokeDestroy(m, session) ==
  IF session = 0 \/ ~m.objects[session].destroy
  THEN [m EXCEPT !.last.outcome = "TypeError"]
  ELSE [m EXCEPT !.objects[session].destroyed = @ + 1]

\* the until of the calls made so far ends with destroySession
forget(m) ==
  [m EXCEPT !.settled = 0,
            !.calls = [i \in DOMAIN m.calls |-> [m.calls[i] EXCEPT !.expected = 0]]]

destroyed(m, before) ==
  [m EXCEPT !.last = [op |-> "destroySession", before |-> before,
                      outcome |-> "returned"],
            !.started = @ + 1]

destroySession_keep(m) ==
  IF m.session # 0 /\ m.objects[m.session].destroy
  THEN invokeDestroy(destroyed(m, m.session), m.session)
  ELSE destroyed(m, m.session)

destroySession(m) ==
  IF m.session # 0 /\ m.objects[m.session].destroy
  THEN [invokeDestroy(destroyed(m, m.session), m.session) EXCEPT !.session = 0]
  ELSE [destroyed(m, m.session) EXCEPT !.session = 0]

Availabilities == {"unavailable", "available"}

Handlers(name) == {NoHandler, name}

\* the objects LanguageModel.create resolves with in a browser
Builds ==
  { NewSessionObject(TRUE, TRUE), NewSessionObject(TRUE, FALSE),
    NewSessionObject(FALSE, FALSE) }

RequestOptions ==
  { [NoOptions EXCEPT !.onQuotaOverflow = "request.onQuotaOverflow"],
    [onContextOverflow |-> "request.onContextOverflow",
     onQuotaOverflow |-> "request.onQuotaOverflow"] }

BaseOptions ==
  [onContextOverflow : Handlers("base.onContextOverflow"),
   onQuotaOverflow : {"base.onQuotaOverflow"}] \cup {NoOptions}

\* the most calls of the manager's methods
MaxCalls == 3

InitSession ==
  /\ \E baseOptions \in BaseOptions : \E global \in BOOLEAN :
       \E build \in Builds : \E options \in RequestOptions :
         sm = NewSessionManager(baseOptions, global, build, options)
  /\ wk = [pc |-> "none"]
  /\ ab = [pc |-> "none"]
  /\ fn = [pc |-> "none"]
  /\ gs = [pc |-> "none"]
  /\ IdleIso
  /\ IdleInput
  /\ IdleDetect
  /\ IdleArgs
  /\ IdleParse
  /\ IdleStream

GetSession ==
  /\ sm.pc = "run"
  /\ sm.started < MaxCalls
  /\ sm' = getSession(sm, sm.options)
  /\ UNCHANGED restSession

CreateSessionWithProgress ==
  /\ sm.pc = "run"
  /\ sm.started < MaxCalls
  /\ sm' = createSessionWithProgress(sm)
  /\ UNCHANGED restSession

AvailabilityResolves ==
  /\ sm.pc = "run"
  /\ \E i \in DOMAIN sm.calls :
       /\ sm.calls[i].pc = "availability"
       /\ \E availability \in Availabilities :
            sm' = afterAvailability(sm, i, availability)
  /\ UNCHANGED restSession

CreateResolves ==
  /\ sm.pc = "run"
  /\ \E i \in DOMAIN sm.calls :
       /\ sm.calls[i].pc = "create"
       /\ sm' = afterCreate(sm, i)
  /\ UNCHANGED restSession

DestroySession ==
  /\ sm.pc = "run"
  /\ sm.started < MaxCalls
  /\ sm' = forget(destroySession(sm))
  /\ UNCHANGED restSession

CheckAvailability ==
  /\ sm.pc = "run"
  /\ sm.started < MaxCalls
  /\ \E availability \in Availabilities :
       sm' = checkAvailability(sm, availability)
  /\ UNCHANGED restSession

NextSession ==
  \/ GetSession
  \/ CreateSessionWithProgress
  \/ AvailabilityResolves
  \/ CreateResolves
  \/ DestroySession
  \/ CheckAvailability

SpecSession == InitSession /\ [][NextSession]_vars

(* ------------------------------------------------------------------ *)
(* Claims about the SessionManager                                     *)
(* ------------------------------------------------------------------ *)

\* C21: once getSession has resolved with a session, every getSession or
\* createSessionWithProgress call made after that and before the next
\* destroySession resolves with that same session and makes no
\* LanguageModel.create call
C21_CachedSessionReused ==
  (sm.pc = "run" /\ sm.last.op = "getSession" /\ sm.last.expected # 0)
    => /\ sm.last.pc = "resolved"
       /\ sm.last.result = sm.last.expected
       /\ sm.last.made = 0

Rejected(m) == m.last.op = "getSession" /\ m.last.pc = "rejected"

RejectedWhenUnavailable ==
  sm.pc = "run" =>
    /\ Rejected(sm) =>
         /\ sm.last.error = "LoadSettingError"
         /\ sm.last.made = 0
         /\ ~sm.LanguageModel \/ sm.last.availability = "unavailable"
    /\ ~sm.LanguageModel =>
         /\ sm.calls = << >>
         /\ sm.objects = << >>
         /\ getCurrentSession(sm) = 0
         /\ sm.last.op = "getSession" => Rejected(sm)
         /\ sm.last.op = "checkAvailability" => sm.last.result = "unavailable"
    /\ (sm.last.op = "getSession" /\ sm.last.availability = "unavailable")
         => Rejected(sm)

\* the step makes a call that returns at once, or ends a call that awaits
Returns == sm'.started > sm.started \/ Len(sm'.calls) < Len(sm.calls)

RejectionKeepsSession ==
  (sm.pc = "run" /\ Returns /\ Rejected(sm')) =>
    /\ getCurrentSession(sm') = getCurrentSession(sm)
    /\ sm'.objects = sm.objects

\* C23: a getSession call is rejected with LoadSettingError when the
\* LanguageModel global is undefined and when availability() resolves with
\* "unavailable", and only then; the rejected call has made no
\* LanguageModel.create call and the step that rejects it leaves
\* getCurrentSession() as it was, null when the global is undefined;
\* checkAvailability returns "unavailable" when the global is undefined
C23_RejectsWhenUnavailable ==
  []RejectedWhenUnavailable /\ [][RejectionKeepsSession]_vars

C23_Witness ==
  /\ sm.pc = "run"
  /\ Rejected(sm)
  /\ sm.last.availability = "unavailable"
  /\ getCurrentSession(sm) = 0
  /\ sm.started > 1

\* the first handler of the sequence that is defined, or the default
FirstDefined(handlers, default) ==
  IF \E i \in DOMAIN handlers : handlers[i] # NoHandler
  THEN handlers[Min({i \in DOMAIN handlers : handlers[i] # NoHandler})]
  ELSE default

\* a getSession call awaits the LanguageModel.create call that makes s
Awaited(m, s) == \E i \in DOMAIN m.calls : m.calls[i].made = s

ExpectedListener(m, object) ==
  [type |-> IF object.oncontextoverflow THEN "contextoverflow"
            ELSE "quotaoverflow",
   listener |-> FirstDefined(<<object.options.onContextOverflow,
                               m.baseOptions.onContextOverflow,
                               object.options.onQuotaOverflow,
                               m.baseOptions.onQuotaOverflow>>,
                             DefaultHandler)]

\* C24: a session whose getSession call has returned has exactly one
\* listener, on "contextoverflow" if it has an oncontextoverflow property
\* and on "quotaoverflow" if not, whose handler is the first defined of
\* the request's onContextOverflow, the base options' onContextOverflow,
\* the request's onQuotaOverflow and the base options' onQuotaOverflow,
\* or the default handler; calls that reuse the session add none
C24_OneOverflowListener ==
  sm.pc = "run" =>
    \A s \in DOMAIN sm.objects :
      sm.objects[s].listeners =
        IF Awaited(sm, s) THEN << >>
        ELSE << ExpectedListener(sm, sm.objects[s]) >>

C24_Witness ==
  /\ sm.pc = "run"
  /\ sm.last.op = "getSession"
  /\ sm.last.pc = "resolved"
  /\ sm.last.made = 0
  /\ sm.last.options.onContextOverflow # NoHandler
  /\ Len(sm.objects[sm.last.result].listeners) = 1
  /\ sm.objects[sm.last.result].listeners[1].listener = "base.onContextOverflow"

(* ------------------------------------------------------------------ *)
(* TransformersJSWorkerHandler: the cache of past_key_values           *)
(* ------------------------------------------------------------------ *)

\* a value that may be null: << >> for null, <<v>> for the value v
Null == << >>
Some(v) == <<v>>

clearGenerationCache(w) ==
  [w EXCEPT !.past_key_values_cache = 0, !.cachedSequenceTokenIds = Null]

\* the loop of canReuseCache over the cached token ids
sameUpTo(inputTokenIds, cached, n) ==
  \A i \in 1..n : inputTokenIds[i] = cached[i]

canReuseCache_length(w, inputTokenIds) ==
  IF w.cachedSequenceTokenIds = Null THEN FALSE
  ELSE Len(inputTokenIds) >= Len(w.cachedSequenceTokenIds[1])

canReuseCache(w, inputTokenIds) ==
  IF w.cachedSequenceTokenIds = Null THEN FALSE
  ELSE IF Len(inputTokenIds) < Len(w.cachedSequenceTokenIds[1]) THEN FALSE
  ELSE sameUpTo(inputTokenIds, w.cachedSequenceTokenIds[1],
                Len(w.cachedSequenceTokenIds[1]))

\* generationOutput: past_key_values is 0 when the output has none,
\* sequences is Null when no token ids can be read from it
updateGenerationCache(w, generationOutput) ==
  IF generationOutput.past_key_values = 0 THEN clearGenerationCache(w)
  ELSE IF generationOutput.sequences = Null THEN clearGenerationCache(w)
  ELSE [w EXCEPT !.past_key_values_cache = generationOutput.past_key_values,
                 !.cachedSequenceTokenIds = generationOutput.sequences]

cacheOf(w) ==
  [cache |-> w.past_key_values_cache, ids |-> w.cachedSequenceTokenIds]

NoFailure == [thrown |-> FALSE]

\* one generate call of the handler. before, atCall: the cache when
\* runGeneration starts and when it calls model.generate; passed: the
\* past_key_values of the first model.generate call, 0 for none; calls: the
\* model.generate calls made; retryPassed: the past_key_values of the
\* second; failure: what held when the first model.generate call threw
NewRun(w, inputTokenIds) ==
  [prompt |-> inputTokenIds, vision |-> w.isVisionModel,
   before |-> cacheOf(w), atCall |-> cacheOf(w), passed |-> 0, calls |-> 0,
   retryPassed |-> 0, numTokens |-> 0, failure |-> NoFailure,
   errors |-> 0, status |-> "running"]

NoRun == [status |-> "none"]

NewWorkerHandler ==
  [pc |-> "idle", isVisionModel |-> FALSE, configured |-> FALSE,
   past_key_values_cache |-> 0, cachedSequenceTokenIds |-> Null,
   run |-> NoRun, runs |-> 0, last |-> "new"]

\* last: the handler's method or step that ran last

sendError(w) ==
  [w EXCEPT !.pc = "idle", !.run.errors = @ + 1, !.run.status = "error",
            !.last = "error"]

\* the cache validation at the start of runGeneration
validateCache(w, inputTokenIds) ==
  IF /\ ~w.isVisionModel
     /\ w.past_key_values_cache # 0
     /\ (inputTokenIds = Null \/ ~canReuseCache(w, inputTokenIds[1]))
  THEN clearGenerationCache(w)
  ELSE w

\* withCacheOptions and the first model.generate call
callGenerate(w) ==
  [w EXCEPT !.pc = "generating",
            !.run.atCall = cacheOf(w),
            !.run.passed = IF ~w.isVisionModel THEN w.past_key_values_cache
                           ELSE 0,
            !.run.calls = 1]

runGeneration(w, inputTokenIds) ==
  callGenerate(validateCache(w, inputTokenIds))

\* generate: ModelManager.getInstance throws when load has set no
\* configuration
generate(w, inputTokenIds) ==
  IF ~w.configured
  THEN sendError([w EXCEPT !.run = NewRun(w, inputTokenIds),
                           !.runs = @ + 1, !.last = "generate"])
  ELSE runGeneration([w EXCEPT !.run = NewRun(w, inputTokenIds),
                               !.runs = @ + 1, !.last = "generate"],
                     inputTokenIds)

\* the catch around the first model.generate call
retryWithoutCache(w) ==
  [clearGenerationCache(w) EXCEPT !.pc = "retrying", !.run.calls = @ + 1,
                                  !.run.retryPassed = 0, !.last = "retry"]

failed(w) ==
  [w EXCEPT !.run.failure =
     [thrown |-> TRUE, passed |-> w.run.passed,
      numTokens |-> w.run.numTokens, cache |-> w.past_key_values_cache]]

generateThrows(w) ==
  IF ~w.run.vision /\ w.past_key_values_cache # 0 /\ w.run.numTokens = 0
  THEN retryWithoutCache(failed(w))
  ELSE sendError(failed(w))

\* the retry throws: the error reaches the catch of generate
retryThrows(w) == sendError(w)

\* model.generate has resolved: the cache is updated and the result posted
generateResolves(w, generationOutput) ==
  IF w.run.vision
  THEN [w EXCEPT !.pc = "idle", !.run.status = "complete",
                 !.last = "complete"]
  ELSE [updateGenerationCache(w, generationOutput) EXCEPT
          !.pc = "idle", !.run.status = "complete", !.last = "complete"]

load(w, isVisionModel) ==
  [clearGenerationCache(w) EXCEPT !.isVisionModel = isVisionModel,
                                  !.configured = TRUE, !.last = "load"]

reset(w) == [clearGenerationCache(w) EXCEPT !.last = "reset"]

\* the token ids of the prompts, and null for input_ids that are no tensor
Prompts == {Null, Some(<<1>>), Some(<<1, 2>>), Some(<<1, 2, 1>>), Some(<<2>>)}

NewTokens == {1, 2}

\* what model.generate may resolve with for a prompt in generation n
Outputs(prompt, n) ==
  { [past_key_values |-> k, sequences |-> s] :
      k \in {0, n},
      s \in {Null} \cup
            { Some((IF prompt = Null THEN << >> ELSE prompt[1]) \o <<t>>) :
                t \in NewTokens } }

\* the most generate calls on the handler
MaxRuns == 3

\* the most tokens of a generation that are counted
MaxTokens == 1

InitWorker ==
  /\ wk = NewWorkerHandler
  /\ sm = [pc |-> "none"]
  /\ ab = [pc |-> "none"]
  /\ fn = [pc |-> "none"]
  /\ gs = [pc |-> "none"]
  /\ IdleIso
  /\ IdleInput
  /\ IdleDetect
  /\ IdleArgs
  /\ IdleParse
  /\ IdleStream

Running == wk.pc \in {"generating", "retrying"}

WorkerLoad ==
  /\ wk.pc # "none"
  /\ \E isVisionModel \in BOOLEAN : wk' = load(wk, isVisionModel)
  /\ UNCHANGED restWorker

WorkerReset ==
  /\ wk.pc # "none"
  /\ wk' = reset(wk)
  /\ UNCHANGED restWorker

WorkerGenerate ==
  /\ wk.pc = "idle"
  /\ wk.runs < MaxRuns
  /\ \E prompt \in Prompts : wk' = generate(wk, prompt)
  /\ UNCHANGED restWorker

Token ==
  /\ Running
  /\ wk.run.numTokens < MaxTokens
  /\ wk' = [wk EXCEPT !.run.numTokens = @ + 1]
  /\ UNCHANGED restWorker

GenerateResolves ==
  /\ Running
  /\ \E out \in Outputs(wk.run.prompt, wk.runs) :
       wk' = generateResolves(wk, out)
  /\ UNCHANGED restWorker

GenerateThrows ==
  /\ wk.pc = "generating"
  /\ wk' = generateThrows(wk)
  /\ UNCHANGED restWorker

RetryThrows ==
  /\ wk.pc = "retrying"
  /\ wk' = retryThrows(wk)
  /\ UNCHANGED restWorker

NextWorker ==
  \/ WorkerLoad
  \/ WorkerReset
  \/ WorkerGenerate
  \/ Token
  \/ GenerateResolves
  \/ GenerateThrows
  \/ RetryThrows

SpecWorker == InitWorker /\ [][NextWorker]_vars

(* ------------------------------------------------------------------ *)
(* Claims about the worker handler                                     *)
(* ------------------------------------------------------------------ *)

IsPrefix(a, b) == Len(a) <= Len(b) /\ SubSeq(b, 1, Len(a)) = a

\* a cache existed and the prompt's token ids extend the cached ones
Reusable(run) ==
  /\ run.before.cache # 0
  /\ run.before.ids # Null
  /\ run.prompt # Null
  /\ IsPrefix(run.before.ids[1], run.prompt[1])

\* a text generation that has reached its first model.generate call
TextRun(w) == w.run.status # "none" /\ w.run.calls >= 1 /\ ~w.run.vision

\* C25: a text generation passes past_key_values to its first
\* model.generate call if and only if a cache existed whose token ids are
\* a prefix of the prompt's, and it then passes that cache; otherwise the
\* cache is empty when model.generate is called; after load() and after
\* reset() the cache is empty
C25_CacheReusedOnPrefix ==
  wk.pc # "none" =>
    /\ TextRun(wk) =>
         /\ (wk.run.passed # 0) <=> Reusable(wk.run)
         /\ wk.run.passed # 0 => wk.run.passed = wk.run.before.cache
         /\ wk.run.passed = 0 => wk.run.atCall = [cache |-> 0, ids |-> Null]
    /\ wk.last \in {"load", "reset"} =>
         /\ wk.past_key_values_cache = 0
         /\ wk.cachedSequenceTokenIds = Null

C25_Witness ==
  /\ wk.pc # "none"
  /\ TextRun(wk)
  /\ wk.run.passed # 0
  /\ Len(wk.run.prompt[1]) > Len(wk.run.before.ids[1])

\* the first model.generate call threw with past_key_values passed and no
\* token produced
CachedPrefillFailed(run) ==
  run.failure.thrown /\ run.failure.passed # 0 /\ run.failure.numTokens = 0

\* C26: when the first model.generate call throws with past_key_values
\* passed and no token produced, model.generate is called a second time,
\* without past_key_values, and no error message is posted if that call
\* succeeds; when it throws in any other situation it is not called again
\* and one error message is posted, as when the second call throws
C26_RetryOnceWithoutCache ==
  (wk.pc # "none" /\ wk.run.status # "none" /\ wk.run.failure.thrown) =>
    IF CachedPrefillFailed(wk.run)
    THEN /\ wk.run.calls = 2
         /\ wk.run.retryPassed = 0
         /\ wk.run.status = "complete" => wk.run.errors = 0
         /\ wk.run.status = "error" => wk.run.errors = 1
    ELSE /\ wk.run.calls = 1
         /\ wk.run.status = "error"
         /\ wk.run.errors = 1

(* ------------------------------------------------------------------ *)
(* Claims about the text and the parts of a doStream run               *)
(* ------------------------------------------------------------------ *)

\* the model output that doStream has read
Consumed == Slice(text, 0, fed)

\* s less the spans of the matches ms
Outside(s, ms) == WithoutRegions(s, ms, Len(ms))

\* the characters of the output read that belong to no emitted tool call,
\* for an output in which the parser's expression matches at most once
TextOutsideCalls(s, ms) ==
  IF HasEvent(stream.events, "tool-call") THEN Outside(s, ms) ELSE s

\* C27: in a doStream run in which a fence was completed, the text-delta
\* parts concatenated are the characters of the model output that belong
\* to no emitted tool call, each once and in order: the text after the
\* fence and the fence that gave no tool call are neither lost nor doubled
C27_TextExactlyOnce ==
  (stream.pc = "closed" /\ stream.closedFences > 0) =>
    \A ms \in {matchAll(DEFAULT_OPTIONS, Consumed, ignoreCase(Consumed), 0)} :
      Len(ms) <= 1 =>
        TextOf(stream.events, 1) = TextOutsideCalls(Consumed, ms)

\* the part at i of the parts ev is followed by a part of the given type
\* with the same id
FollowedBy(ev, i, type) ==
  \E j \in (i + 1)..Len(ev) : ev[j].type = type /\ ev[j].id = ev[i].id

\* the tool-input-start at i is followed by a tool-input-end and after it
\* a tool-call, both with its id
ClosedByCall(ev, i) ==
  \E j \in (i + 1)..Len(ev) :
    /\ ev[j].type = "tool-input-end"
    /\ ev[j].id = ev[i].id
    /\ FollowedBy(ev, j, "tool-call")

\* C28: when a doStream run has finished, every tool-input-start part is
\* followed, before the finish part, by a tool-input-end and a tool-call
\* with the same id, also when the fence gave no valid call or the output
\* ended inside the fence
C28_ToolInputClosed ==
  stream.pc = "closed" =>
    \A i \in 1..Len(stream.events) :
      stream.events[i].type = "tool-input-start" =>
        ClosedByCall(stream.events, i)

\* the parts of the given type among the parts ev
PartsOf(ev, type) == {k \in 1..Len(ev) : ev[k].type = type}

\* one finish part, the last part, with text-end before it when a text
\* block was started
FinishedOnce(ev) ==
  /\ PartsOf(ev, "finish") = {Len(ev)}
  /\ PartsOf(ev, "text-start") # {} =>
       \E k \in PartsOf(ev, "text-end") :
         \A j \in PartsOf(ev, "text-start") \cup PartsOf(ev, "text-delta") :
           j < k

\* C29: a doStream run that ends without an error part has enqueued one
\* finish part, as its last part, after a text-end if a text block was
\* started, and the finish reason is tool-calls if a tool-call part was
\* enqueued and stop if none was, in both models and for every chunking
C29_FinishReason ==
  (stream.pc = "closed" /\ ~HasEvent(stream.events, "error")) =>
    /\ FinishedOnce(stream.events)
    /\ stream.events[Len(stream.events)].data =
         IF HasEvent(stream.events, "tool-call") THEN "tool-calls" ELSE "stop"
(* ------------------------------------------------------------------ *)
(* The abort signal of a doStream run of the core model                *)
(* ------------------------------------------------------------------ *)

\* the part the catch clause of start enqueues
ErrorPart(error) == Event("error", JUndefined, JUndefined, error)

\* A doStream call with an abortSignal.  pc is where the call is:
\* "session" (doStream awaits getSession), "read" (a read is pending),
\* "chunk", "eof", "rejected" (the read has settled with a chunk, with done
\* or with an error, and the continuation of start has not run yet), "loop"
\* (start is in the fence processing loop), "cancel" (start awaits
\* currentReader.cancel() after a tool call), "returned" or "threw" (start
\* has returned, or has thrown out of its catch clause).  signal is
\* abortSignal.aborted, listening whether abortHandler is a listener of the
\* signal, aborted the variable of the closure, reader the state of
\* currentReader ("none" for null), closes the calls of controller.close(),
\* closedAt the number of parts enqueued when the stream was closed, thrown
\* the TypeErrors thrown by an enqueue on the closed stream, and firedAt
\* the pc at which the signal fired.
NewAbortRun ==
  [pc |-> "session", signal |-> FALSE, listening |-> FALSE, aborted |-> FALSE,
   reader |-> "none", closes |-> 0, closedAt |-> 0, thrown |-> 0,
   firedAt |-> "none"]

\* controller.close() was called between the stream states before and after
controllerClose(a, before, after) ==
  IF after.finished /\ ~before.finished
  THEN [a EXCEPT !.closes = @ + 1, !.closedAt = Len(after.events)]
  ELSE a

\* abortHandler: the assignments to the closure and currentReader?.cancel()
abortHandler(a) ==
  IF a.aborted THEN a
  ELSE [a EXCEPT !.aborted = TRUE,
                 !.reader = IF @ = "none" THEN @ ELSE "cancelled"]

\* abortHandler: finishStream, which the first run of the handler reaches
abortFinish(a, s) == IF a.aborted THEN s ELSE finishStream(s, "aborted")

\* the finally clause of start
finally(a) == [a EXCEPT !.listening = FALSE]

\* the catch clause of start: enqueue on a closed stream throws a TypeError,
\* which leaves start
catchError(a, s) ==
  IF a.closes > 0
  THEN finally([a EXCEPT !.pc = "threw", !.thrown = @ + 1])
  ELSE finally([a EXCEPT !.pc = "returned", !.closes = @ + 1,
                         !.closedAt = Len(s.events) + 1])
catchParts(a, s, error) ==
  IF a.closes > 0 THEN s ELSE enqueue(s, ErrorPart(error))

\* the statements after the read loop: return if (aborted), or flush and
\* finish
afterReadLoop(a, s, d) ==
  IF a.aborted THEN s ELSE coreFinish(coreFlush(s, d))

\* where start is after an iteration of the fence processing loop that
\* left the stream state s
afterIteration(a, s) ==
  IF s.pc = "end" THEN [a EXCEPT !.pc = "cancel", !.reader = "cancelled"]
  ELSE IF s.pc = "read"
  THEN (IF a.aborted THEN finally([a EXCEPT !.pc = "returned"])
        ELSE [a EXCEPT !.pc = "read"])
  ELSE a

AbortTexts ==
  { "hi ^^^tool_call\n{\"name\":\"f\",\"arguments\":{\"k\":1}}\n^^^ ok",
    "plain ^^ text <to",
    "^^^tool_call\n{\"name\":\"f\",\"arg" }

InitAbort ==
  /\ variant = "core"
  /\ text \in AbortTexts
  /\ \E c1 \in 1..Len(text) :
       \E c2 \in c1..MinOf(Len(text), c1 + MaxGap) : cuts = {c1, c2, Len(text)}
  /\ fed = 0
  /\ det = NewDetector(EXTENDED_FENCE_PATTERNS, TRUE)
  /\ stream = [pc |-> "none"]
  /\ stalls = 0
  /\ generated = NotGenerated
  /\ work = NoWork
  /\ ab = NewAbortRun
  /\ fn = [pc |-> "none"]
  /\ gs = [pc |-> "none"]
  /\ sm = [pc |-> "none"]
  /\ wk = [pc |-> "none"]
  /\ IdleDetect
  /\ IdleArgs
  /\ IdleParse
  /\ IdleIso

\* the abort event of the signal: its listeners run
AbortFires ==
  /\ ab.pc \notin {"none", "loop"}
  /\ ~ab.signal
  /\ IF ab.listening
     THEN /\ stream' = abortFinish(ab, stream)
          /\ ab' = [controllerClose(abortHandler(ab), stream,
                                    abortFinish(ab, stream))
                      EXCEPT !.signal = TRUE, !.firedAt = ab.pc]
     ELSE /\ stream' = stream
          /\ ab' = [ab EXCEPT !.signal = TRUE, !.firedAt = ab.pc]
  /\ UNCHANGED <<text, fed, det, variant, cuts, stalls, generated, work,
                 restAbort>>

\* getSession resolves: the stream is constructed and start runs up to the
\* first read; promptStreaming with a signal that is aborted returns a
\* stream that is errored
StartStream ==
  /\ ab.pc = "session"
  /\ stream' = NewStream
  /\ ab' = [ab EXCEPT !.pc = "read", !.listening = TRUE,
                      !.reader = IF ab.signal THEN "errored" ELSE "open"]
  /\ UNCHANGED <<text, fed, det, variant, cuts, stalls, generated, work,
                 restAbort>>

\* the pending read settles; the read of a reader that the abort cancelled
\* resolves with done, or rejects when the source has taken the abort first
ReadSettles ==
  /\ ab.pc = "read"
  /\ \E outcome \in
         IF ab.reader = "errored" THEN {"rejected"}
         ELSE IF ab.reader = "cancelled" THEN {"eof", "rejected"}
         ELSE IF fed < Len(text) THEN {"chunk"} ELSE {"eof"} :
       ab' = [ab EXCEPT !.pc = outcome]
  /\ UNCHANGED <<text, fed, det, variant, cuts, stream, stalls, generated,
                 work, restAbort>>

\* start continues with the chunk read, which is added to the detector
ChunkContinues ==
  /\ ab.pc = "chunk"
  /\ \E to \in {Min({c \in cuts : c > fed})} :
       /\ det' = addChunk(det, Slice(text, fed, to))
       /\ fed' = to
  /\ stream' = [stream EXCEPT !.pc = "loop"]
  /\ ab' = [ab EXCEPT !.pc = "loop"]
  /\ stalls' = 0
  /\ UNCHANGED <<text, variant, cuts, generated, work, restAbort>>

\* one iteration of the fence processing loop; its first enqueue throws
\* when the stream is closed
AbortLoopIteration ==
  /\ ab.pc = "loop"
  /\ loopCondition(variant, stream, det)
  /\ stalls < MaxStall
  /\ \E step \in {detectStreamingFence(det)} :
       /\ det' = step.d
       /\ \E s \in {loopBody(variant, stream, step.r)} :
            IF ab.closes > 0 /\ Len(s.events) > Len(stream.events)
            THEN /\ stream' = catchParts(ab, stream, "TypeError")
                 /\ ab' = catchError([ab EXCEPT !.thrown = @ + 1], stream)
                 /\ stalls' = stalls
            ELSE /\ stream' = s
                 /\ ab' = afterIteration(ab, s)
                 /\ stalls' =
                      IF s.pc = "loop" /\ Len(step.d.buffer) = Len(det.buffer)
                      THEN stalls + 1 ELSE stalls
  /\ UNCHANGED <<text, fed, variant, cuts, generated, work, restAbort>>

\* the condition of the fence processing loop is false: while (!aborted)
AbortLoopExit ==
  /\ ab.pc = "loop"
  /\ ~loopCondition(variant, stream, det)
  /\ stream' = [stream EXCEPT !.pc = "read"]
  /\ ab' = afterIteration(ab, [pc |-> "read"])
  /\ UNCHANGED <<text, fed, det, variant, cuts, stalls, generated, work,
                 restAbort>>

\* start continues after a read that resolved with done, or after
\* currentReader.cancel() has resolved
ReadLoopLeft ==
  /\ ab.pc \in {"eof", "cancel"}
  /\ stream' = afterReadLoop(ab, stream, det)
  /\ ab' = finally([controllerClose(ab, stream,
                                    afterReadLoop(ab, stream, det))
                      EXCEPT !.pc = "returned"])
  /\ det' = IF ~ab.aborted /\ ~stream.toolBlockDetected
            THEN clearBuffer(det) ELSE det
  /\ UNCHANGED <<text, fed, variant, cuts, stalls, generated, work,
                 restAbort>>

\* start continues after a read that rejected: the catch clause
ReadRejected ==
  /\ ab.pc = "rejected"
  /\ stream' = catchParts(ab, stream, "AbortError")
  /\ ab' = catchError(ab, stream)
  /\ UNCHANGED <<text, fed, det, variant, cuts, stalls, generated, work,
                 restAbort>>

NextAbort ==
  \/ AbortFires
  \/ StartStream
  \/ ReadSettles
  \/ ChunkContinues
  \/ AbortLoopIteration
  \/ AbortLoopExit
  \/ ReadLoopLeft
  \/ ReadRejected

SpecAbort == InitAbort /\ [][NextAbort]_vars

\* the finish parts with the raw reason "aborted" among the parts ev
AbortedFinishes(ev) == {k \in PartsOf(ev, "finish") : ev[k].data = "aborted"}

\* C30: when the abort signal has fired during a doStream run of the core
\* model (while doStream awaits the session, while a read is pending, or
\* after a read has settled and before start continues), the run ends with
\* one finish part of raw reason "aborted" enqueued, controller.close()
\* called once, and no part enqueued after the stream was closed
C30_AbortFinishesOnce ==
  (ab.pc \in {"returned", "threw"}
     /\ ab.firedAt \notin {"none", "returned", "threw"}) =>
    /\ Cardinality(AbortedFinishes(stream.events)) = 1
    /\ ab.closes = 1
    /\ Len(stream.events) = ab.closedAt
(* ------------------------------------------------------------------ *)
(* Overlapping calls of the SessionManager                             *)
(* ------------------------------------------------------------------ *)

\* this.session is replaced only by destroySession: no LanguageModel.create
\* result takes the place of a session that is current
SessionKept ==
  (sm.pc = "run" /\ sm.session # 0 /\ sm'.session # sm.session) =>
    sm'.last.op = "destroySession"

\* the step after a destroySession that settles the last call in flight
\* leaves this.session null
DestroyedStaysNull ==
  (sm.pc = "run" /\ sm.last.op = "destroySession" /\ Len(sm'.calls) = 0) =>
    getCurrentSession(sm') = 0

\* C31: getSession calls that overlap make one LanguageModel.create call
\* between them and resolve with the same session, so that no session
\* replaces the current one other than through destroySession, and a
\* getSession call in flight when destroySession is called leaves
\* getCurrentSession() null when it has settled
C31_OverlappingCalls == [][SessionKept /\ DestroyedStaysNull]_vars
(* ------------------------------------------------------------------ *)
(* The system prompt of the calls of one core model instance           *)
(* ------------------------------------------------------------------ *)

\* buildJsonToolSystemPrompt(originalSystemPrompt, tools, options), of which
\* the tests fix: "" for no prompt and no tools, the original prompt for no
\* tools, and for tools a text with the original prompt, "Available Tools"
\* and the name of every tool; undefined is ""
RECURSIVE toolInstructions(_, _)
toolInstructions(tools, k) ==
  IF k > Len(tools) THEN ""
  ELSE "\n- " \o tools[k] \o toolInstructions(tools, k + 1)

buildJsonToolSystemPrompt(originalSystemPrompt, tools) ==
  IF Len(tools) = 0 THEN originalSystemPrompt
  ELSE originalSystemPrompt \o "\n# Available Tools" \o toolInstructions(tools, 1)

\* prepareSessionOptions: initialPrompts of the options LanguageModel.create
\* is called with
prepareSessionOptions(options, baseOptions) ==
  [initialPrompts |->
     IF options.systemMessage # ""
     THEN <<[role |-> "system", content |-> options.systemMessage]>>
     ELSE baseOptions.initialPrompts]

\* the options of the model instance: no handlers and no initialPrompts
ModelOptions ==
  [onContextOverflow |-> NoHandler, onQuotaOverflow |-> NoHandler,
   initialPrompts |-> << >>]

\* this.getSession(undefined, expectedInputs, systemPrompt || undefined)
sessionOptionsOf(op, systemPrompt) ==
  [onContextOverflow |-> NoHandler, onQuotaOverflow |-> NoHandler,
   systemMessage |-> systemPrompt, call |-> op]

\* doGenerate and doStream up to the await of getSession
doCall(m, op, systemMessage, tools) ==
  getSession(m, sessionOptionsOf(op, buildJsonToolSystemPrompt(systemMessage, tools)))

SystemMessages == {"", "Be brief."}
ToolSets == {<< >>, <<"getWeather">>}

InitModel ==
  /\ sm = NewSessionManager(ModelOptions, TRUE, NewSessionObject(TRUE, TRUE),
                          NoOptions)
  /\ wk = [pc |-> "none"]
  /\ ab = [pc |-> "none"]
  /\ fn = [pc |-> "none"]
  /\ gs = [pc |-> "none"]
  /\ IdleIso
  /\ IdleInput
  /\ IdleDetect
  /\ IdleArgs
  /\ IdleParse
  /\ IdleStream

DoGenerate ==
  /\ sm.pc = "run"
  /\ sm.started < MaxCalls
  /\ \E systemMessage \in SystemMessages : \E tools \in ToolSets :
       sm' = doCall(sm, "doGenerate", systemMessage, tools)
  /\ UNCHANGED restSession

DoStream ==
  /\ sm.pc = "run"
  /\ sm.started < MaxCalls
  /\ \E systemMessage \in SystemMessages : \E tools \in ToolSets :
       sm' = doCall(sm, "doStream", systemMessage, tools)
  /\ UNCHANGED restSession

NextModel == DoGenerate \/ DoStream \/ AvailabilityResolves \/ CreateResolves

SpecModel == InitModel /\ [][NextModel]_vars

\* the initialPrompts of the session a call resolved with
InitialPromptsOf(m, session) ==
  prepareSessionOptions(m.objects[session].options, m.baseOptions).initialPrompts

\* C32: the session a doGenerate or doStream call runs against was created
\* with the system prompt built for that call as its initialPrompts, also
\* when an earlier call with another system message or tool set has left a
\* session in the model instance
C32_SessionCarriesSystemPrompt ==
  (sm.pc = "run" /\ sm.last.op = "getSession" /\ sm.last.pc = "resolved") =>
    InitialPromptsOf(sm, sm.last.result) =
      prepareSessionOptions(sm.last.options, sm.baseOptions).initialPrompts
(* ------------------------------------------------------------------ *)
(* Detectors of every configuration                                    *)
(* ------------------------------------------------------------------ *)

createBasicDetector == NewDetector(DEFAULT_FENCE_PATTERNS, FALSE)
createExtendedDetector == NewDetector(EXTENDED_FENCE_PATTERNS, TRUE)

\* patterns a caller passes to the constructor: the start of the first is
\* a prefix of the start of the second, the third starts as a bracket call
CustomPatterns ==
  << FP("<tool", "</tool", "<tool"),
     FP("<tool_call>", "</tool_call>", "<tool_call>"),
     FP("[f(", ")]", "[f(") >>

Detectors ==
  { createBasicDetector, createExtendedDetector,
    NewDetector(DEFAULT_FENCE_PATTERNS, TRUE),
    NewDetector(CustomPatterns, TRUE), NewDetector(CustomPatterns, FALSE) }

ConfigTexts ==
  { "a<tool_call>x</tool_call>b",
    "[f(x)]^^^tool_call\ny^^^",
    "a^^^tool-call\n[g(1)]^^^tool_call",
    "<tool_call>[f(x)]",
    "[ f(<tool^^^tool_callz",
    "^^^tool_call\n^^x</t^^^^" }

InitConfig ==
  /\ chunking = "any"
  /\ text \in ConfigTexts
  /\ fed = 0
  /\ det \in Detectors
  /\ result = NoResult
  /\ emitted = ""
  /\ fences = << >>
  /\ entries = << >>
  /\ ledger = << >>
  /\ lastOp = "init"
  /\ drained = TRUE
  /\ done = FALSE
  /\ IdleArgs
  /\ IdleParse
  /\ IdleStream
  /\ IdleIso
  /\ IdleHost

SpecConfig == InitConfig /\ [][NextDetect]_vars

\* the start matches in str: of the k-th literal pattern at its first
\* occurrence, and of the bracket call expression when it is enabled,
\* ranked after every literal
StartMatches(str, patterns, python) ==
  { [index |-> IndexOf(str, patterns[k].start), rank |-> k,
     start |-> patterns[k].start] :
      k \in {j \in 1..Len(patterns) : IndexOf(str, patterns[j].start) # -1} }
  \cup
  { [index |-> pythonStyleRegex(str).index, rank |-> Len(patterns) + 1,
     start |-> pythonStyleRegex(str).match] :
      k \in {j \in {1} : python /\ pythonStyleRegex(str).index # -1} }

\* the match of the lowest offset, and of the lowest rank among those
Selected(ms) ==
  CHOOSE m \in ms :
    \A n \in ms : m.index < n.index \/ (m.index = n.index /\ m.rank <= n.rank)

\* the detector d entered a fence as the match m selects
EnteredAs(d, m, buffer, safeContent) ==
  /\ d.inFence
  /\ d.currentFencePattern.start = m.start
  /\ d.currentFencePattern.isRegex = (m.rank > Len(d.fencePatterns))
  /\ ~d.currentFencePattern.isRegex => d.currentFencePattern = d.fencePatterns[m.rank]
  /\ safeContent = Slice(buffer, 0, m.index)

\* a detectStreamingFence call outside a fence enters the fence of the
\* selected start match, and none when there is no match
SelectsLowestStart ==
  (~det.inFence /\ lastOp' \notin {"add", "flush"}) =>
    IF StartMatches(det.buffer, det.fencePatterns, det.enablePythonStyle) = {}
    THEN ~det'.inFence
    ELSE EnteredAs(det',
           Selected(StartMatches(det.buffer, det.fencePatterns,
                                 det.enablePythonStyle)),
           det.buffer, result'.safeContent)

\* a detector of the default patterns without the bracket call expression
\* is inside a fence of the default patterns only
BasicEntersMarkdownOnly ==
  (det.fencePatterns = DEFAULT_FENCE_PATTERNS /\ ~det.enablePythonStyle
     /\ det.inFence) =>
    \E k \in 1..Len(DEFAULT_FENCE_PATTERNS) :
      det.currentFencePattern = DEFAULT_FENCE_PATTERNS[k]

\* C33: outside a fence detectStreamingFence enters the fence of the start
\* match of the lowest buffer offset among the literal patterns of the
\* detector and, only when enablePythonStyle is set, the bracket call
\* expression; at equal offsets the literal declared first wins, and a
\* literal wins over the bracket call; a detector of createBasicDetector
\* enters no fence on XML or bracket call text
C33_LowestStartWins == []BasicEntersMarkdownOnly /\ [][SelectsLowestStart]_vars

\* a detector of the custom patterns has entered at an offset where two
\* literals match, or a literal and the bracket call expression
C33_Witness ==
  /\ det.fencePatterns = CustomPatterns
  /\ det.enablePythonStyle
  /\ det.inFence
  /\ \/ text = "<tool_call>[f(x)]" /\ det.currentFencePattern.start = "<tool"
     \/ text = "[f(x)]^^^tool_call\ny^^^" /\ det.currentFencePattern.start = "[f("

\* the start match detectStreamingFence finds in the buffer of d
StartIn(d) ==
  Selected(StartMatches(d.buffer, d.fencePatterns, d.enablePythonStyle))

HasStart(d) == StartMatches(d.buffer, d.fencePatterns, d.enablePythonStyle) # {}

\* the buffer of d after the start match m
AfterStart(d, m) == SliceFrom(d.buffer, m.index + Len(m.start))

\* buffer is rest, less a first character that is the newline after a
\* markdown marker
MarkerRemoved(buffer, rest, start) ==
  IF Slice(start, 0, 3) = "^^^" /\ Slice(rest, 0, 1) = "\n"
  THEN Len(buffer) = Len(rest) - 1 /\ rest = "\n" \o buffer
  ELSE buffer = rest

\* a detectStreamingFence call outside a fence with a start marker in the
\* buffer
EntersFence ==
  (~det.inFence /\ lastOp' \notin {"add", "flush"} /\ HasStart(det)) =>
    /\ result'.inFence
    /\ result'.safeContent = Slice(det.buffer, 0, StartIn(det).index)
    /\ ~result'.hasFence
    /\ result'.completeFence = ""
    /\ result'.textAfterFence = ""
    /\ det'.inFence
    /\ det'.fenceStartBuffer = ""
    /\ det'.currentFencePattern.start = StartIn(det).start
    /\ MarkerRemoved(det'.buffer, AfterStart(det, StartIn(det)),
                     StartIn(det).start)

\* inFence becomes true in such a call only
EntersOnlyOnStart ==
  (~det.inFence /\ det'.inFence) =>
    lastOp' \notin {"add", "flush"} /\ HasStart(det)

\* C34: a detectStreamingFence call outside a fence whose buffer holds a
\* complete start marker returns inFence true, the text before the marker
\* as safeContent and no completeFence, removes the marker from the buffer
\* with one newline that follows a markdown marker, empties the fence
\* accumulator and records the pattern; inFence becomes true in no other
\* step
C34_EntersOnStartMarker == [][EntersFence /\ EntersOnlyOnStart]_vars

\* the fence of a markdown marker was entered after the text "a", and the
\* newline after the marker is gone from the buffer
C34_Witness ==
  /\ lastOp = "enter"
  /\ result.inFence
  /\ result.safeContent = "a"
  /\ det.currentFencePattern.start = "^^^tool-call"
  /\ fed >= 14
  /\ det.buffer = Slice(text, 14, fed)

\* the end marker of the fence the detector d is in
EndMarker(d) == d.currentFencePattern.end

\* a detectStreamingFence call inside a fence with the end marker in the
\* buffer
ClosesFence ==
  (det.inFence /\ lastOp' \notin {"add", "flush"}
     /\ IndexOf(det.buffer, EndMarker(det)) # -1) =>
    /\ result'.hasFence
    /\ result'.completeFence =
         det.currentFencePattern.reconstructStart \o det.fenceStartBuffer
           \o Slice(det.buffer, 0, IndexOf(det.buffer, EndMarker(det)))
           \o EndMarker(det)
    /\ ~result'.inFence
    /\ ~det'.inFence
    /\ det'.fenceStartBuffer = ""
    /\ det'.currentFencePattern = NoPattern
    /\ det'.buffer = result'.textAfterFence
    /\ det.buffer =
         Slice(det.buffer, 0, IndexOf(det.buffer, EndMarker(det)))
           \o EndMarker(det) \o result'.textAfterFence

\* C35: a detectStreamingFence call inside a fence whose buffer holds the
\* end marker of the active pattern returns as completeFence the
\* reconstructStart of the pattern, what was accumulated since the fence
\* was entered, the buffer up to the end marker and the end marker; it
\* returns inFence false, empties the accumulator, clears the active
\* pattern and leaves as the buffer the text after the end marker, which
\* is textAfterFence
C35_CompleteFence == [][ClosesFence]_vars

\* an XML fence was closed whose body had been accumulated by an earlier
\* call, with text after the end marker
C35_Witness ==
  /\ lastOp = "close"
  /\ result.completeFence = "<tool_call>x</tool_call>"
  /\ result.safeContent = ""
  /\ result.textAfterFence = "b"
  /\ det.buffer = "b"
  /\ ~det.inFence
(* ------------------------------------------------------------------ *)
(* computeOverlapLength on its own                                     *)
(* ------------------------------------------------------------------ *)

OverlapChars == {"^", "<", "a"}

\* the longest text computeOverlapLength is called with
MaxText == 3

RECURSIVE Words(_)
Words(n) ==
  IF n = 0 THEN {""}
  ELSE Words(n - 1) \cup {w \o ch : w \in Words(n - 1), ch \in OverlapChars}

OverlapCandidates == {"", "^", "^^^", "<a>", "a^<^", "^^^tool_call"}

CandidateLists ==
  {<< >>} \cup {<<c1>> : c1 \in OverlapCandidates}
    \cup {<<c1, c2>> : c1 \in OverlapCandidates, c2 \in OverlapCandidates}

InitOverlap ==
  /\ \E str \in Words(MaxText) : \E candidates \in CandidateLists :
       fn = [pc |-> "call", op |-> "computeOverlapLength", text |-> str,
             candidates |-> candidates]
  /\ gs = [pc |-> "none"]
  /\ sm = [pc |-> "none"]
  /\ wk = [pc |-> "none"]
  /\ ab = [pc |-> "none"]
  /\ IdleIso
  /\ IdleInput
  /\ IdleDetect
  /\ IdleArgs
  /\ IdleParse
  /\ IdleStream

\* the call returns
OverlapReturns ==
  /\ fn.pc = "call"
  /\ fn' = [pc |-> "returned", op |-> fn.op, text |-> fn.text,
            candidates |-> fn.candidates,
            result |-> computeOverlapLength(fn.text, fn.candidates)]
  /\ UNCHANGED restCall

SpecOverlap == InitOverlap /\ [][OverlapReturns]_vars

\* the k for which the last k characters of str are the first k characters
\* of the candidate c, with k below the length of c
Overlaps(str, c) ==
  {k \in 1..Len(str) :
     /\ k <= Len(c) - 1
     /\ SubSeq(str, Len(str) - k + 1, Len(str)) = SubSeq(c, 1, k)}

AllOverlaps(str, candidates) ==
  UNION {Overlaps(str, candidates[i]) : i \in 1..Len(candidates)}

\* C36: computeOverlapLength(text, candidates) is the largest k, from 1 to
\* the smaller of the length of text and the length of a candidate less
\* one, such that the last k characters of text are the first k characters
\* of that candidate, and 0 when there is no such k
C36_LargestOverlap ==
  fn.pc = "returned" =>
    /\ AllOverlaps(fn.text, fn.candidates) = {} => fn.result = 0
    /\ AllOverlaps(fn.text, fn.candidates) # {} =>
         /\ fn.result \in AllOverlaps(fn.text, fn.candidates)
         /\ \A k \in AllOverlaps(fn.text, fn.candidates) : k <= fn.result

\* the second candidate gives the larger overlap, which is shorter than the
\* text and stops one short of the candidate
C36_Witness ==
  /\ fn.pc = "returned"
  /\ fn.text = "a^^"
  /\ fn.candidates = <<"^", "^^^">>
  /\ fn.result = 2

\* inside a fence the accumulator holds no end marker of the active pattern
AccumulatorFree ==
  det.inFence =>
    IndexOf(det.fenceStartBuffer, EndMarker(det)) = -1

\* a detectStreamingFence call inside a fence that does not close it moves
\* a prefix of the buffer to the accumulator as safeContent and keeps in
\* the buffer every suffix that starts the end marker
HoldsBackEndMarker ==
  (det.inFence /\ lastOp' = "body") =>
    /\ det.buffer = result'.safeContent \o det'.buffer
    /\ det'.fenceStartBuffer = det.fenceStartBuffer \o result'.safeContent
    /\ \A k \in Overlaps(det.buffer, EndMarker(det)) : k <= Len(det'.buffer)

\* a detectStreamingFence call closes the fence when the text received
\* since the fence was entered holds the end marker, however it was split
RecognisesSplitEndMarker ==
  (det.inFence /\ lastOp' \notin {"add", "flush"}
     /\ IndexOf(det.fenceStartBuffer \o det.buffer, EndMarker(det)) # -1) =>
    /\ lastOp' = "close"
    /\ result'.completeFence =
         det.currentFencePattern.reconstructStart
           \o Slice(det.fenceStartBuffer \o det.buffer, 0,
                    IndexOf(det.fenceStartBuffer \o det.buffer, EndMarker(det)))
           \o EndMarker(det)

\* C37: inside a fence the accumulator never holds the end marker of the
\* active pattern; no character that may start the end marker is moved to
\* the accumulator or returned as safeContent, and an end marker split over
\* chunks at any position closes the fence at the first call after its
\* last character was added
C37_EndMarkerHeldBack ==
  []AccumulatorFree /\ [][HoldsBackEndMarker /\ RecognisesSplitEndMarker]_vars

\* inside an XML fence the body is accumulated and the first characters of
\* the end marker wait in the buffer
C37_Witness ==
  /\ det.inFence
  /\ lastOp = "body"
  /\ det.fenceStartBuffer = "x"
  /\ det.buffer = "</t"
(* ------------------------------------------------------------------ *)
(* The ArgumentsStreamState over a growing content                     *)
(* ------------------------------------------------------------------ *)

\* where the delta of a call starts: at parseIndex, or at the value start
\* that the call has located
DeltaStart(before, after) ==
  IF before.valueStartIndex # -1 THEN before.parseIndex
  ELSE after.valueStartIndex

\* a call with a content that has not shrunk, made in a state whose
\* parseIndex lies within the content
GrownCall ==
  (shown' >= shown /\ argState.parseIndex <= shown) =>
    /\ argState'.searchFrom >= argState.searchFrom
    /\ argState'.parseIndex >= argState.parseIndex
    /\ argState'.parseIndex <= shown'
    /\ argState'.depth >= 0
    /\ IF argState'.valueStartIndex = -1
       THEN lastDelta' = "" /\ argState'.parseIndex = 0
       ELSE lastDelta' = Slice(content, DeltaStart(argState, argState'),
                               argState'.parseIndex)

\* C38: over extractArgumentsDelta calls with a growing content, searchFrom
\* and parseIndex never decrease, parseIndex is at most the length of the
\* content, depth is never negative, no delta is returned before the key
\* is located, and from then on the delta of a call is the content from
\* parseIndex before the call (the value start, in the call that locates
\* the key) to parseIndex after it
C38_MonotoneCursor == [][GrownCall]_vars

\* the key was located beyond the search overlap and calls have followed
\* the value into its second level
C38_Witness ==
  /\ argState.valueStartIndex > ARGUMENTS_SEARCH_OVERLAP
  /\ argState.searchFrom = argState.valueStartIndex
  /\ argState.depth = 2
  /\ argState.parseIndex = shown
  /\ lastDelta = "{"
  /\ deltas = "[{"
(* ------------------------------------------------------------------ *)
(* A completed fence without a tool call                               *)
(* ------------------------------------------------------------------ *)

\* the result of the detectStreamingFence call of the next iteration
NextFence == detectStreamingFence(det).r

\* the next iteration of the fence processing loop completes a fence from
\* which parseJsonFunctionCalls returns no call
CompletesWithoutCall ==
  /\ stream.pc = "loop"
  /\ loopCondition(variant, stream, det)
  /\ NextFence.hasFence
  /\ parseJsonFunctionCalls(NextFence.completeFence, DEFAULT_OPTIONS).toolCalls
       = << >>

\* the parts enqueued by the step
EnqueuedByStep ==
  SubSeq(stream'.events, Len(stream.events) + 1, Len(stream'.events))

\* the iteration emits the fence as text, enqueues no tool-call, error or
\* finish part, resets the state of the call and stays in the loop with
\* the text after the fence as the buffer
SkipsFence ==
  CompletesWithoutCall =>
    /\ \E k \in 1..Len(EnqueuedByStep) :
         /\ EnqueuedByStep[k].type = "text-delta"
         /\ EnqueuedByStep[k].data = NextFence.completeFence
    /\ \A k \in 1..Len(EnqueuedByStep) :
         EnqueuedByStep[k].type \notin {"tool-call", "error", "finish"}
    /\ stream'.pc = "loop"
    /\ stream'.currentToolCallId = JNull
    /\ ~stream'.toolInputStartEmitted
    /\ stream'.accumulatedFenceContent = ""
    /\ stream'.streamedArgumentsLength = 0
    /\ ~stream'.insideFence
    /\ det'.buffer = NextFence.textAfterFence

LaterFenceText ==
  "^^^tool_call\n{}\n^^^<tool_call>{\"name\":\"g\"}</tool_call>"

\* the valid fence after a fence without a call has given its tool call
\* when the stream is closed
LaterFenceProcessed ==
  (text = LaterFenceText /\ stream.pc = "closed") =>
    /\ Cardinality(PartsOf(stream.events, "tool-call")) = 1
    /\ ~HasEvent(stream.events, "error")

\* C39: in doStream a completed fence that yields no tool call does not end
\* the stream: the fence is emitted as text, no tool-call and no error part
\* is enqueued for it, the streaming state of the call is reset, and what
\* follows, a later valid fence included, is processed
C39_NoCallFenceSkipped == []LaterFenceProcessed /\ [][SkipsFence]_vars

\* the stream over a fence without a call followed by a valid fence is
\* closed, with the first fence as text and the tool call of the second
C39_Witness ==
  /\ text = LaterFenceText
  /\ stream.pc = "closed"
  /\ \E k \in PartsOf(stream.events, "text-delta") :
       stream.events[k].data = "^^^tool_call\n{}\n^^^"
  /\ HasEvent(stream.events, "tool-call")

\* ---------------------------------------------------------------------------
\* createWorkerGenerationStream: the queue between the worker's messages and
\* the consumer of the generator
\* ---------------------------------------------------------------------------

\* The most messages the worker sends to one generator.
MaxMessages == 3

\* The messages the worker handler posts: updates, whose output is a string,
\* the two final messages, and the statuses the listener ignores.
WorkerMessages ==
  { [status |-> "update", output |-> "a"],
    [status |-> "update", output |-> "b"],
    [status |-> "start", output |-> "undefined"],
    [status |-> "complete", output |-> "undefined"],
    [status |-> "error", output |-> "undefined"],
    [status |-> "loading", output |-> "undefined"] }

\* The generator before the consumer's first next(): no statement of its body
\* has run.
NewGenerationStream ==
  [pc |-> "start", listening |-> FALSE, chunks |-> << >>, resolve |-> FALSE,
   complete |-> FALSE, lastYield |-> "none", consumer |-> "idle",
   out |-> << >>, received |-> << >>, accepted |-> << >>]

\* pushChunk without the call of the pending resolver.
pushChunk_silent(g, chunk) == [g EXCEPT !.chunks = Append(g.chunks, chunk)]

\* pushChunk: append the chunk and call the pending resolver, if there is one.
pushChunk(g, chunk) ==
  [g EXCEPT !.chunks = Append(g.chunks, chunk),
            !.resolve = FALSE,
            !.pc = IF g.resolve THEN "ready" ELSE g.pc]

\* waitForChunk at an await: a resolved promise when something is queued or
\* the stream is complete, else a promise whose resolver is kept.
waitForChunk(g) ==
  IF Len(g.chunks) > 0 \/ g.complete
    THEN [g EXCEPT !.pc = "ready"]
    ELSE [g EXCEPT !.pc = "waiting", !.resolve = TRUE]

\* onMessage for a message the listener receives.
onMessage(g, msg) ==
  IF msg.status = "update" /\ msg.output # "undefined"
    THEN pushChunk(g, [type |-> "delta", delta |-> msg.output])
  ELSE IF msg.status = "complete"
    THEN [pushChunk(g, [type |-> "complete", delta |-> ""])
            EXCEPT !.complete = TRUE, !.listening = FALSE]
  ELSE IF msg.status = "error"
    THEN [pushChunk(g, [type |-> "error", delta |-> ""])
            EXCEPT !.complete = TRUE, !.listening = FALSE]
  ELSE g

\* The generator returns: the pending next() resolves with done.
generatorReturn(g) == [g EXCEPT !.pc = "returned", !.consumer = "done"]

\* The body of the consumer loop from the inner while on, up to the next
\* yield, throw, return or await.
drainChunks(g) ==
  IF Len(g.chunks) > 0
    THEN LET chunk == Head(g.chunks)
             rest == [g EXCEPT !.chunks = Tail(g.chunks)]
         IN IF chunk.type = "error"
              THEN [rest EXCEPT !.pc = "threw", !.consumer = "failed"]
              ELSE [rest EXCEPT !.pc = "yielded", !.lastYield = chunk.type,
                                !.consumer = "idle",
                                !.out = Append(g.out, chunk)]
  ELSE IF g.complete
    THEN generatorReturn(g)
  ELSE waitForChunk(g)

\* The generator resumed by next() after a yield.
afterYield(g) ==
  IF g.lastYield = "complete" THEN generatorReturn(g) ELSE drainChunks(g)

\* The generator started by the first next(): the listener is added, the
\* generate message is posted, and the body awaits waitForChunk.
startBody(g) == waitForChunk([g EXCEPT !.listening = TRUE])

InitGen ==
  /\ IdleIso
  /\ IdleInput
  /\ IdleDetect
  /\ IdleArgs
  /\ IdleParse
  /\ IdleStream
  /\ sm = [pc |-> "none"]
  /\ wk = [pc |-> "none"]
  /\ ab = [pc |-> "none"]
  /\ fn = [pc |-> "none"]
  /\ gs = NewGenerationStream

\* The consumer calls next() on a generator that is not running.
ConsumerPulls ==
  /\ gs.pc \in {"start", "yielded"}
  /\ gs.consumer = "idle"
  /\ LET g == [gs EXCEPT !.consumer = "pending"]
     IN gs' = IF gs.pc = "start" THEN startBody(g) ELSE afterYield(g)
  /\ UNCHANGED restGen

\* A message event of the worker is dispatched; only an attached listener
\* sees it. Message events are tasks: none runs while a continuation of the
\* generator is still queued as a microtask.
MessageArrives ==
  /\ gs.pc \notin {"none", "start", "ready"}
  /\ Len(gs.received) < MaxMessages
  /\ \E msg \in WorkerMessages :
       LET g == [gs EXCEPT !.received = Append(gs.received, msg),
                           !.accepted = IF gs.listening
                                          THEN Append(gs.accepted, msg)
                                          ELSE gs.accepted]
       IN gs' = IF gs.listening THEN onMessage(g, msg) ELSE g
  /\ UNCHANGED restGen

\* The continuation of the await on waitForChunk runs.
GeneratorContinues ==
  /\ gs.pc = "ready"
  /\ gs' = drainChunks(gs)
  /\ UNCHANGED restGen

NextGen == ConsumerPulls \/ MessageArrives \/ GeneratorContinues

\* The continuation of a resolved await is a queued microtask, which the
\* event loop always runs.
SpecGen == InitGen /\ [][NextGen]_vars /\ WF_vars(GeneratorContinues)

\* The events the generator owes for a sequence of received messages: one
\* delta per update, in order, up to the first final message; a complete
\* message adds the complete event, an error none.
RECURSIVE ExpectedEvents(_)
ExpectedEvents(msgs) ==
  IF msgs = << >> THEN << >>
  ELSE LET msg == Head(msgs)
       IN IF msg.status = "update"
            THEN <<[type |-> "delta", delta |-> msg.output]>>
                   \o ExpectedEvents(Tail(msgs))
          ELSE IF msg.status = "complete"
            THEN <<[type |-> "complete", delta |-> ""]>>
          ELSE IF msg.status = "error" THEN << >>
          ELSE ExpectedEvents(Tail(msgs))

HasFinal(msgs, status) ==
  \E i \in 1..Len(msgs) :
    /\ msgs[i].status = status
    /\ \A j \in 1..(i - 1) : msgs[j].status \notin {"complete", "error"}

\* What the consumer has been given is always the beginning of what the
\* messages received so far call for: nothing lost, doubled or out of order.
YieldsInArrivalOrder == IsPrefix(gs.out, ExpectedEvents(gs.accepted))

\* The generator returns only after the complete event, having yielded every
\* delta before it.
ReturnsAfterComplete ==
  gs.pc = "returned" =>
    /\ HasFinal(gs.accepted, "complete")
    /\ gs.out = ExpectedEvents(gs.accepted)

\* The generator throws only on an error message, having yielded every delta
\* received before it.
ThrowsAfterDeltas ==
  gs.pc = "threw" =>
    /\ HasFinal(gs.accepted, "error")
    /\ gs.out = ExpectedEvents(gs.accepted)

\* While a final message has not arrived no message is missed by the
\* listener.
ListensUntilFinal ==
  (gs.pc # "start" /\ ~gs.complete) => gs.accepted = gs.received

\* A generator suspended on waitForChunk has nothing queued and its resolver
\* registered, so the next chunk wakes it.
WaitsOnlyWhenEmpty ==
  gs.pc = "waiting" => Len(gs.chunks) = 0 /\ gs.resolve /\ ~gs.complete

\* A next() that is pending while something is owed.
PullOwed ==
  /\ gs.consumer = "pending"
  /\ (Len(gs.chunks) > 0 \/ gs.complete)

PullSettled == gs.consumer \in {"idle", "done", "failed"}

\* C40: createWorkerGenerationStream yields one delta per update message, in
\* arrival order, then the complete event and returns; on an error message it
\* throws after the deltas received before it; and a pending next() settles
\* once a chunk has been queued, under every interleaving of messages and
\* pulls.
C40_WorkerStreamDelivers ==
  /\ [](YieldsInArrivalOrder /\ ReturnsAfterComplete /\ ThrowsAfterDeltas
          /\ ListensUntilFinal /\ WaitsOnlyWhenEmpty)
  /\ (PullOwed ~> PullSettled)

\* An update is yielded, then a second update and the error arrive: the
\* consumer has both deltas in order and the generator has thrown.
C40_Witness ==
  /\ gs.pc = "threw"
  /\ Len(gs.out) = 2
  /\ gs.out[1].delta = "b" /\ gs.out[2].delta = "a"
  /\ gs.received[3].status = "error"

====
